---- MODULE Spec2Model ----
(***************************************************************************)
(* The live transcode pipeline of pkg/ffmpeg/stream_transcode.go:          *)
(* ServeTranscode, getTranscodeStream, the stderr drain goroutine and the  *)
(* stdout copy handler, together with the encoder process, the request    *)
(* context and the read-lock manager they run against.                     *)
(***************************************************************************)
EXTENDS Integers, Sequences, FiniteSets, TLC

\* ---------------------------------------------------------------- bounds
NumReqs == 2      \* concurrent stream requests
NumPaths == 2     \* distinct video files
MaxOut == 2       \* bytes an encoder writes to stdout before it can only exit
MaxErr == 2       \* bytes an encoder writes to stderr
OutPipeCap == 1   \* capacity of the stdout pipe
ErrPipeCap == 1   \* capacity of the stderr pipe

Reqs == 1..NumReqs
Paths == 1..NumPaths

\* the first request
Stream == CHOOSE r \in Reqs : \A q \in Reqs : r <= q

\* ------------------------------------------------------ program constants
StatusOK == 200
StatusBadRequest == 400

MimeMp4Video == "video/mp4"
MimeWebmVideo == "video/webm"
MimeMkvVideo == "video/x-matroska"

\* StreamTypeMP4, StreamTypeWEBM, StreamTypeMKV: the MimeType field
StreamTypeMimes == {MimeMp4Video, MimeWebmVideo, MimeMkvVideo}

NoHeaders == [cache |-> "", ctype |-> ""]

\* nothing written yet: WriteHeader calls (code and the headers sent with it),
\* stream bytes, error texts, Flush calls
NoResponse == [status |-> <<>>, body |-> <<>>, text |-> <<>>, flushes |-> 0]

\* ------------------------------------------------------ argument generation
\* the video codecs CodecInit and FileGetCodec name
VideoCodecLibX264 == "VideoCodecLibX264"
VideoCodecVP9 == "VideoCodecVP9"
VideoCodecN264 == "VideoCodecN264"
VideoCodecI264 == "VideoCodecI264"
VideoCodecV264 == "VideoCodecV264"
VideoCodecA264 == "VideoCodecA264"
VideoCodecM264 == "VideoCodecM264"
VideoCodecO264 == "VideoCodecO264"
VideoCodecIVP9 == "VideoCodecIVP9"
VideoCodecVVP9 == "VideoCodecVVP9"
VideoCodecCopy == "VideoCodecCopy"

SoftwareCodecs == {VideoCodecLibX264, VideoCodecVP9}

HardwareCodecs ==
  {VideoCodecN264, VideoCodecI264, VideoCodecV264, VideoCodecA264,
   VideoCodecM264, VideoCodecO264, VideoCodecIVP9, VideoCodecVVP9}

VideoCodecs == SoftwareCodecs \cup HardwareCodecs \cup {VideoCodecCopy}

\* a nil *VideoCodec: the probe found no hardware codec for the container
Nil == "nil"

AudioCodecLibOpus == "AudioCodecLibOpus"
FormatMP4 == "FormatMP4"
FormatWebm == "FormatWebm"
FormatMatroska == "FormatMatroska"
LogLevelError == "LogLevelError"

\* ProbeAudioCodec of a file without an audio stream the players can take
MissingUnsupported == ""

\* the Args builders: each appends its flag and the value it is given
VideoCodec(a, c) == a \o <<"-c:v", c>>
AudioCodec(a, c) == a \o <<"-c:a", c>>
Format(a, f) == a \o <<"-f", f>>
LogLevel(a, l) == a \o <<"-v", l>>
Seek(a, seconds) == a \o <<"-ss", ToString(seconds)>>
Input(a, i) == a \o <<"-i", i>>
Output(a, o) == a \o <<o>>
SkipAudio(a) == a \o <<"-an">>

\* an empty filter is no transform: nothing is appended
VideoFilter(a, vf) == IF vf = "" THEN a ELSE a \o <<"-vf", vf>>

\* the device arguments a hardware codec needs before the input
hwDeviceInit(a, codec) ==
  IF codec \in HardwareCodecs THEN a \o <<"-init_hw_device", codec>> ELSE a

CodecInit(codec) ==
  LET args == VideoCodec(<<>>, codec)
  IN  CASE codec = VideoCodecLibX264 ->
             args \o <<"-pix_fmt", "yuv420p", "-preset", "veryfast", "-crf", "25",
                       "-sc_threshold", "0">>
        [] codec = VideoCodecVP9 ->
             args \o <<"-pix_fmt", "yuv420p", "-deadline", "realtime",
                       "-cpu-used", "5", "-row-mt", "1", "-crf", "30", "-b:v", "0">>
        [] codec = VideoCodecN264 -> args \o <<"-rc", "vbr", "-cq", "15">>
        [] codec = VideoCodecI264 ->
             args \o <<"-global_quality", "20", "-preset", "faster">>
        [] codec = VideoCodecV264 -> args \o <<"-qp", "20">>
        [] codec = VideoCodecA264 -> args \o <<"-quality", "speed">>
        [] codec = VideoCodecM264 -> args \o <<"-prio_speed", "1">>
        [] codec = VideoCodecO264 -> args \o <<"-preset", "superfast", "-crf", "25">>
        [] codec = VideoCodecIVP9 ->
             args \o <<"-global_quality", "20", "-preset", "faster">>
        [] codec = VideoCodecVVP9 -> args \o <<"-qp", "20">>
        [] OTHER -> args

\* StreamTypeMP4.Args
StreamTypeMP4Args(codec, videoFilter, videoOnly) ==
  LET a1 == CodecInit(codec)
      a2 == a1 \o <<"-movflags", "frag_keyframe+empty_moov">>
      a3 == VideoFilter(a2, videoFilter)
      a4 == IF videoOnly THEN SkipAudio(a3) ELSE a3 \o <<"-ac", "2">>
  IN  Format(a4, FormatMP4)

\* StreamTypeWEBM.Args with the codec chosen after the filter
StreamTypeWEBMArgsCodecLate(codec, videoFilter, videoOnly) ==
  LET a2 == VideoFilter(<<>>, videoFilter) \o CodecInit(codec)
      a3 == IF videoOnly THEN SkipAudio(a2) ELSE a2 \o <<"-ac", "2">>
  IN  Format(a3, FormatWebm)

\* StreamTypeWEBM.Args
StreamTypeWEBMArgs(codec, videoFilter, videoOnly) ==
  LET a1 == CodecInit(codec)
      a2 == VideoFilter(a1, videoFilter)
      a3 == IF videoOnly THEN SkipAudio(a2) ELSE a2 \o <<"-ac", "2">>
  IN  Format(a3, FormatWebm)

\* StreamTypeMKV.Args that sets the audio arguments whatever videoOnly is
StreamTypeMKVArgsAlwaysAudio(codec, videoFilter, videoOnly) ==
  LET a1 == CodecInit(codec)
      a2 == AudioCodec(a1, AudioCodecLibOpus)
                \o <<"-b:a", "96k", "-vbr", "on", "-ac", "2">>
  IN  Format(a2, FormatMatroska)

\* StreamTypeMKV.Args
StreamTypeMKVArgs(codec, videoFilter, videoOnly) ==
  LET a1 == CodecInit(codec)
      a2 == IF videoOnly
              THEN SkipAudio(a1)
              ELSE AudioCodec(a1, AudioCodecLibOpus)
                     \o <<"-b:a", "96k", "-vbr", "on", "-ac", "2">>
  IN  Format(a2, FormatMatroska)

\* o.StreamType.Args: the Args function of the format with this MIME type
StreamTypeArgs(mimetype, codec, videoFilter, videoOnly) ==
  CASE mimetype = MimeMp4Video -> StreamTypeMP4Args(codec, videoFilter, videoOnly)
    [] mimetype = MimeWebmVideo -> StreamTypeWEBMArgs(codec, videoFilter, videoOnly)
    [] mimetype = MimeMkvVideo -> StreamTypeMKVArgs(codec, videoFilter, videoOnly)

\* FileGetCodec that takes the probed codec without asking the configuration
FileGetCodecIgnoringSetting(sm, mimetype) ==
  CASE mimetype = MimeMp4Video ->
         IF sm.hwCodecMP4Compatible # Nil THEN sm.hwCodecMP4Compatible
         ELSE VideoCodecLibX264
    [] mimetype = MimeWebmVideo ->
         IF sm.hwCodecWEBMCompatible # Nil THEN sm.hwCodecWEBMCompatible
         ELSE VideoCodecVP9
    [] mimetype = MimeMkvVideo -> VideoCodecCopy
    [] OTHER -> ""

\* FileGetCodec: sm carries the answers of sm.encoder and sm.config
FileGetCodec(sm, mimetype) ==
  CASE mimetype = MimeMp4Video ->
         IF sm.hwCodecMP4Compatible # Nil /\ sm.TranscodeHardwareAcceleration
           THEN sm.hwCodecMP4Compatible
           ELSE VideoCodecLibX264
    [] mimetype = MimeWebmVideo ->
         IF sm.hwCodecWEBMCompatible # Nil /\ sm.TranscodeHardwareAcceleration
           THEN sm.hwCodecWEBMCompatible
           ELSE VideoCodecVP9
    [] mimetype = MimeMkvVideo -> VideoCodecCopy
    [] OTHER -> ""

\* videoOnly := ProbeAudioCodec(o.VideoFile.AudioCodec) == MissingUnsupported
\* (ProbeAudioCodec(...) converts the type of the string)
VideoOnly(o) == o.AudioCodec = MissingUnsupported

\* GetMaxResolution: the largest dimension a resolution label allows
GetMaxResolution(label) ==
  CASE label = "LOW" -> 240
    [] label = "STANDARD" -> 480
    [] label = "STANDARD_HD" -> 720
    [] label = "FULL_HD" -> 1080
    [] label = "FOUR_K" -> 2160

\* the cap of makeStreamArgs that never looks at the request's Resolution
MaxTranscodeSizeConfigOnly(o, sm) ==
  GetMaxResolution(sm.MaxStreamingTranscodeSize)

\* maxTranscodeSize: the configured maximum, or the request's Resolution
MaxTranscodeSize(o, sm) ==
  IF o.Resolution # ""
    THEN GetMaxResolution(o.Resolution)
    ELSE GetMaxResolution(sm.MaxStreamingTranscodeSize)

\* the nearest even number at or below n
Even(n) == n - (n % 2)

\* the source needs no scaling under the cap
Fits(width, height, max) == width <= max /\ height <= max

\* no filter: the empty string, and no output dimensions
NoFilter == [vf |-> "", width |-> 0, height |-> 0]

\* the output dimensions: the long edge at the cap, the short edge in
\* proportion, both brought down to an even number
ScaleDimensions(width, height, max) ==
  IF width >= height
    THEN <<Even(max), Even((height * max) \div width)>>
    ELSE <<Even((width * max) \div height), Even(max)>>

\* hwMaxResFilter: the scale filter of a hardware codec is written in its own
\* syntax; width and height are the output dimensions the text carries
hwMaxResFilter(codec, width, height, max) ==
  IF Fits(width, height, max)
    THEN NoFilter
    ELSE LET d == ScaleDimensions(width, height, max)
             name == IF codec \in HardwareCodecs THEN "scale_hw=" ELSE "scale="
         IN  [vf |-> name \o ToString(d[1]) \o ":" \o ToString(d[2]),
              width |-> d[1], height |-> d[2]]

\* the filter of makeStreamArgs computed with width and height exchanged
StreamFilterSwapped(o, sm) ==
  hwMaxResFilter(FileGetCodec(sm, o.StreamType), o.Height, o.Width,
                 MaxTranscodeSize(o, sm))

\* videoFilter := sm.encoder.hwMaxResFilter(codec, o.VideoFile.Width,
\*                                          o.VideoFile.Height, maxTranscodeSize)
StreamFilter(o, sm) ==
  hwMaxResFilter(FileGetCodec(sm, o.StreamType), o.Width, o.Height,
                 MaxTranscodeSize(o, sm))

\* makeStreamArgs with videoOnly never set
makeStreamArgsWithAudio(o, sm) ==
  LET a1 == LogLevel(<<"-hide_banner">>, LogLevelError)
      codec == FileGetCodec(sm, o.StreamType)
      a2 == hwDeviceInit(a1, codec) \o sm.LiveTranscodeInputArgs
      a3 == IF o.StartTime # 0 THEN Seek(a2, o.StartTime) ELSE a2
      a4 == Input(a3, o.Path)
      a5 == a4 \o StreamTypeArgs(o.StreamType, codec, StreamFilter(o, sm).vf, FALSE)
  IN  Output(a5 \o sm.LiveTranscodeOutputArgs, "pipe:")

\* makeStreamArgs with the output named before the extra output arguments
makeStreamArgsOutputEarly(o, sm) ==
  LET a1 == LogLevel(<<"-hide_banner">>, LogLevelError)
      codec == FileGetCodec(sm, o.StreamType)
      a2 == hwDeviceInit(a1, codec) \o sm.LiveTranscodeInputArgs
      a3 == IF o.StartTime # 0 THEN Seek(a2, o.StartTime) ELSE a2
      a4 == Input(a3, o.Path)
      a5 == a4 \o StreamTypeArgs(o.StreamType, codec, StreamFilter(o, sm).vf,
                                 VideoOnly(o))
  IN  Output(a5, "pipe:") \o sm.LiveTranscodeOutputArgs

\* makeStreamArgs with the extra input arguments appended after the input
makeStreamArgsInputArgsLate(o, sm) ==
  LET a1 == LogLevel(<<"-hide_banner">>, LogLevelError)
      codec == FileGetCodec(sm, o.StreamType)
      a2 == hwDeviceInit(a1, codec)
      a3 == IF o.StartTime # 0 THEN Seek(a2, o.StartTime) ELSE a2
      a4 == Input(a3, o.Path) \o sm.LiveTranscodeInputArgs
      a5 == a4 \o StreamTypeArgs(o.StreamType, codec, StreamFilter(o, sm).vf,
                                 VideoOnly(o))
  IN  Output(a5 \o sm.LiveTranscodeOutputArgs, "pipe:")

\* TranscodeOptions.makeStreamArgs
makeStreamArgs(o, sm) ==
  LET a1 == LogLevel(<<"-hide_banner">>, LogLevelError)
      codec == FileGetCodec(sm, o.StreamType)
      a2 == hwDeviceInit(a1, codec) \o sm.LiveTranscodeInputArgs
      a3 == IF o.StartTime # 0 THEN Seek(a2, o.StartTime) ELSE a2
      a4 == Input(a3, o.Path)
      videoOnly == VideoOnly(o)
      videoFilter == StreamFilter(o, sm).vf
      a5 == a4 \o StreamTypeArgs(o.StreamType, codec, videoFilter, videoOnly)
  IN  Output(a5 \o sm.LiveTranscodeOutputArgs, "pipe:")

\* ------------------------------------------------ slices and their arrays
\* A slice is a window [arr, len] on a backing array of the heap; the cells
\* of the array beyond len are its spare capacity.  The configuration's extra
\* input and output arguments are the first and the second array.
Elems(heap, s) == SubSeq(heap[s.arr], 1, s.len)

\* a slice literal: a new array that holds just the elements
Literal(heap, xs) ==
  [heap |-> Append(heap, xs),
   s |-> [arr |-> Len(heap) + 1, len |-> Len(xs)]]

\* append(m.s, xs...): in place when the capacity suffices, or else into a new
\* array; the slice appended to is the only one whose array is written
GoAppend(m, xs) ==
  LET a == m.heap[m.s.arr]
      n == m.s.len
  IN  IF n + Len(xs) <= Len(a)
        THEN [heap |-> [m.heap EXCEPT ![m.s.arr] =
                          [i \in 1..Len(a) |->
                             IF i > n /\ i <= n + Len(xs) THEN xs[i - n] ELSE a[i]]],
              s |-> [arr |-> m.s.arr, len |-> n + Len(xs)]]
        ELSE [heap |-> Append(m.heap, SubSeq(a, 1, n) \o xs),
              s |-> [arr |-> Len(m.heap) + 1, len |-> n + Len(xs)]]

\* sm.config.GetLiveTranscodeInputArgs() and GetLiveTranscodeOutputArgs()
ExtraInputArgs(sm) == [arr |-> 1, len |-> Len(sm.LiveTranscodeInputArgs)]
ExtraOutputArgs(sm) == [arr |-> 2, len |-> Len(sm.LiveTranscodeOutputArgs)]

\* the configuration's two lists, each with spare cells of capacity
ConfigHeap(sm, spare) ==
  <<sm.LiveTranscodeInputArgs \o [i \in 1..spare |-> ""],
    sm.LiveTranscodeOutputArgs \o [i \in 1..spare |-> ""]>>

\* makeStreamArgs that puts the output after the configuration's own slice
makeStreamArgsOnHeapShared(o, sm, heap) ==
  LET m0 == Literal(heap, <<"-hide_banner">>)
      m1 == GoAppend(m0, LogLevel(<<>>, LogLevelError))
      codec == FileGetCodec(sm, o.StreamType)
      m2 == GoAppend(m1, hwDeviceInit(<<>>, codec))
      m3 == GoAppend(m2, Elems(m2.heap, ExtraInputArgs(sm)))
      m4 == IF o.StartTime # 0 THEN GoAppend(m3, Seek(<<>>, o.StartTime)) ELSE m3
      m5 == GoAppend(m4, Input(<<>>, o.Path))
      m6 == GoAppend(m5, StreamTypeArgs(o.StreamType, codec,
                                        StreamFilter(o, sm).vf, VideoOnly(o)))
      out == GoAppend([heap |-> m6.heap, s |-> ExtraOutputArgs(sm)],
                      Output(<<>>, "pipe:"))
  IN  GoAppend([heap |-> out.heap, s |-> m6.s], Elems(out.heap, out.s))

\* makeStreamArgs statement by statement on the arrays: the result slice and
\* the heap the call leaves
makeStreamArgsOnHeap(o, sm, heap) ==
  LET m0 == Literal(heap, <<"-hide_banner">>)
      m1 == GoAppend(m0, LogLevel(<<>>, LogLevelError))
      codec == FileGetCodec(sm, o.StreamType)
      m2 == GoAppend(m1, hwDeviceInit(<<>>, codec))
      m3 == GoAppend(m2, Elems(m2.heap, ExtraInputArgs(sm)))
      m4 == IF o.StartTime # 0 THEN GoAppend(m3, Seek(<<>>, o.StartTime)) ELSE m3
      m5 == GoAppend(m4, Input(<<>>, o.Path))
      m6 == GoAppend(m5, StreamTypeArgs(o.StreamType, codec,
                                        StreamFilter(o, sm).vf, VideoOnly(o)))
      m7 == GoAppend(m6, Elems(m6.heap, ExtraOutputArgs(sm)))
  IN  GoAppend(m7, Output(<<>>, "pipe:"))

\* ------------------------------------------------------------- DLNA service
\* durations a caller may give, the last instant of the clock, and the
\* number of timers the runtime is asked for
MaxDuration == 2
MaxTime == 3
MaxTimers == 3

\* a *time.Duration or *time.Time is <<>> for nil, or <<n>>
Durations == {<<d>> : d \in 1..MaxDuration}

\* the Service as NewService returns it.  timers are the timers time.AfterFunc
\* has made, each pending, stopped, fired (its function waits to run) or done;
\* startTimer and stopTimer point to one of them, 0 is nil.
NewService ==
  [running |-> FALSE, startTimer |-> 0, startTime |-> <<>>,
   stopTimer |-> 0, stopTime |-> <<>>, timers |-> <<>>]

\* t.Stop(): a pending timer will not fire; the function of a timer that has
\* fired runs all the same
TimerStop(timers, t) ==
  [timers EXCEPT ![t].state = IF @ = "pending" THEN "stopped" ELSE @]

\* time.AfterFunc(d, f): f is s.Stop(nil) for "stop", s.Start(nil) for "start"
AfterFunc(timers, kind, due) ==
  Append(timers, [kind |-> kind, due |-> due, state |-> "pending"])

\* Start returns the error of s.init()
StartError(s, ok) == ~s.running /\ ~ok

\* Service.Start that leaves the start timer of an earlier Stop as it is
ServiceStartKeepsStartTimer(s, duration, ok, clock) ==
  IF StartError(s, ok)
    THEN s
    ELSE
      LET s1 == [s EXCEPT !.running = TRUE]
          s2 == IF duration # <<>> /\ s1.stopTimer # 0
                  THEN [s1 EXCEPT !.timers = TimerStop(@, s1.stopTimer),
                                  !.stopTime = <<>>]
                  ELSE s1
      IN  IF duration # <<>> /\ s2.stopTimer = 0
            THEN [s2 EXCEPT !.timers = AfterFunc(@, "stop", clock + duration[1]),
                            !.stopTimer = Len(s2.timers) + 1,
                            !.stopTime = <<clock + duration[1]>>]
            ELSE s2

\* Service.Start, under the mutex; ok: s.init() succeeds; clock: time.Now()
ServiceStart(s, duration, ok, clock) ==
  IF StartError(s, ok)
    THEN s
    ELSE
      LET s1 == IF s.running THEN s
                ELSE IF s.startTimer # 0
                  THEN [s EXCEPT !.running = TRUE,
                                 !.timers = TimerStop(@, s.startTimer),
                                 !.startTimer = 0,
                                 !.startTime = <<>>]
                  ELSE [s EXCEPT !.running = TRUE]
          s2 == IF duration # <<>> /\ s1.stopTimer # 0
                  THEN [s1 EXCEPT !.timers = TimerStop(@, s1.stopTimer),
                                  !.stopTime = <<>>]
                  ELSE s1
      IN  IF duration # <<>> /\ s2.stopTimer = 0
            THEN [s2 EXCEPT !.timers = AfterFunc(@, "stop", clock + duration[1]),
                            !.stopTimer = Len(s2.timers) + 1,
                            !.stopTime = <<clock + duration[1]>>]
            ELSE s2

\* Service.Stop, under the mutex
ServiceStop(s, duration, clock) ==
  LET s1 == IF ~s.running THEN s
            ELSE IF s.stopTimer # 0
              THEN [s EXCEPT !.running = FALSE,
                             !.timers = TimerStop(@, s.stopTimer),
                             !.stopTimer = 0,
                             !.stopTime = <<>>]
              ELSE [s EXCEPT !.running = FALSE]
      s2 == IF duration # <<>> /\ s1.startTimer # 0
              THEN [s1 EXCEPT !.timers = TimerStop(@, s1.startTimer)]
              ELSE s1
  IN  IF duration # <<>> /\ s2.startTimer = 0
        THEN [s2 EXCEPT !.timers = AfterFunc(@, "start", clock + duration[1]),
                        !.startTimer = Len(s2.timers) + 1,
                        !.startTime = <<clock + duration[1]>>]
        ELSE s2

\* Service.Status: Running and Until
Status(s) ==
  LET u == IF s.startTime # <<>> THEN s.startTime ELSE <<>>
  IN  [Running |-> s.running,
       Until |-> IF s.stopTime # <<>> THEN s.stopTime ELSE u]

\* ------------------------------------------------------ Database write lock
\* the goroutines that call the Database
NumCallers == 2
Callers == 1..NumCallers

\* make(chan struct{}, 1): the capacity of lockChan
LockChanCap == 1

\* the Database as NewDatabase returns it: lockChan empty, db.db nil
NewDatabase == [lockChan |-> 0, db |-> "nil"]

\* ------------------------------------------------------------- migrations
\* var appSchemaVersion uint = 49
appSchemaVersion == 49

\* the width of uint in the model
UintBits == 6

\* arithmetic on uint wraps
Uint(n) == n % (2 ^ UintBits)

\* how far behind and ahead of appSchemaVersion a database file may be
MaxBehind == 2
MaxAhead == 1
FileVersions == (appSchemaVersion - MaxBehind)..(appSchemaVersion + MaxAhead)

\* the migrations embedded in the program (migrations/*.sql) end at the
\* version the program is built for
HasMigration(version) == version \in 1..appSchemaVersion

\* a Migrate call and the database it works on.  file is the schema version
\* the database file holds (m.Version()), schemaVersion is db.schemaVersion,
\* backup is the file at backupPath (<<>> if there is none, else the version
\* it holds); BackupPath is input.BackupPath; log lists what RunMigrations
\* ran, res is what the last Migrate returned.
NoMigrate ==
  [pc |-> "idle", BackupPath |-> "", file |-> appSchemaVersion,
   schemaVersion |-> 0, backup |-> <<>>, databaseSchemaVersion |-> 0,
   stepNumber |-> 0, i |-> 0, log |-> <<>>, restore |-> "none",
   removed |-> FALSE, res |-> ""]

\* newVersion := databaseSchemaVersion + i
NewVersion(g) == Uint(g.databaseSchemaVersion + g.i)

\* RunMigrations returns an error
RunMigrationsFailed(g, op) ==
  [g EXCEPT !.pc = "failed", !.log = Append(@, <<op, NewVersion(g), "failed">>)]

\* ------------------------------------------------------------- the Manager
\* the stream managers one run of the program constructs at most
MaxStreamManagers == 3

\* the Manager as initialize makes it: no stream manager (0 is nil), and the
\* one ReadLockManager of fsutil.NewReadLockManager(), which holds no lock.
\* streamManagers are the stream managers constructed so far, lockManagers
\* the lock managers, each the set of paths read-locked through it.
NewManager ==
  [StreamManager |-> 0, ReadLockManager |-> 1, pc |-> "idle",
   streamManagers |-> <<>>, lockManagers |-> <<{}>>]

\* ffmpeg.NewStreamManager(cacheDir, encoder, ffprobe, config, lockManager):
\* a stream manager that takes its read locks from lockManager
NewStreamManager(m, lockManager) ==
  [m EXCEPT !.streamManagers =
              Append(@, [lockManager |-> lockManager, shutdown |-> FALSE]),
            !.StreamManager = Len(m.streamManagers) + 1]

\* if s.StreamManager != nil { s.StreamManager.Shutdown(); s.StreamManager = nil }
ShutdownStreamManager(m) ==
  IF m.StreamManager # 0
    THEN [m EXCEPT !.streamManagers[m.StreamManager].shutdown = TRUE,
                   !.StreamManager = 0]
    ELSE m

VARIABLES
  pc,          \* position of the ServeTranscode call of each request
  path,        \* options.VideoFile.Path of the request
  mime,        \* options.StreamType.MimeType of the request
  reqCtx,      \* r.Context(): "live" or "done"
  client,      \* the HTTP peer: "connected" or "gone"
  lockCtx,     \* the LockContext returned by ReadLock: "none", "live", "done", "detached"
  readLocks,   \* lock table: path -> set of requests holding a read lock
  released,    \* number of times the read lock of the request was released
  writer,      \* file-modification operation per path: "idle", "waiting", "active"
  attached,    \* number of AttachCommand calls on the LockContext (its cmd is set if > 0)
  cmdCtx,      \* the command was created with the lock context
  proc,        \* encoder process: "none", "running", "exit0", "exit1", "killed"
  waited,      \* number of cmd.Wait() calls that returned
  waitErr,     \* errCmd, what cmd.Wait() returned ("" is nil; "none" before it)
  nOut,        \* bytes the encoder has written to stdout
  outPipe,     \* stdout pipe content
  outClosed,   \* the read end of the stdout pipe was closed (by Wait)
  buf,         \* io.Copy's buffer
  nErr,        \* bytes the encoder has written to stderr
  errPipe,     \* bytes in the stderr pipe
  errStr,      \* bytes accumulated by io.ReadAll(stderr)
  dpc,         \* position of the stderr drain goroutine
  err,         \* the error the handler holds ("" is nil)
  header,      \* w.Header()
  sent,        \* response as written: statuses with the headers sent, and body
  logs,        \* messages logged for the request
  sm,          \* what sm.config and sm.encoder answer during argument generation
  options,     \* the TranscodeOptions arguments are generated for
  call,        \* the argument-generation function applied, with its parameters
  codec,       \* the VideoCodec FileGetCodec returned
  args,        \* the Args returned
  filter,      \* the video filter computed, with the dimensions it scales to
  mem,         \* the arrays behind the slices after makeStreamArgs, and its result
  dlna,        \* the DLNA Service: running, its timers and their times
  now,         \* time.Now()
  stopBy,      \* the instant the last successful Start with a duration named
  database,    \* the Database: elements in lockChan, and whether db.db is set
  holders,     \* the callers that took the write lock and have not given it back
  dbpc,        \* where each caller of the Database is
  dbctx,       \* the context a caller gave to lock: "live" or "done"
  dbres,       \* what the last call of each caller returned
  mgr,         \* the Manager: its stream manager, lock manager and the call it runs
  mig          \* the Migrate call of the Manager and the database file

pipeVars == <<pc, path, mime, reqCtx, client, lockCtx, readLocks, released,
              writer, attached, cmdCtx, proc, waited, waitErr, nOut, outPipe, outClosed,
              buf, nErr, errPipe, errStr, dpc, err, header, sent, logs>>

argsVars == <<sm, options, call, codec, args, filter, mem>>

\* the services beside the stream manager
dlnaVars == <<dlna, now, stopBy>>
dbVars == <<database, holders, dbpc, dbctx, dbres>>
mgrVars == <<mgr, mig>>
svcVars == <<dlnaVars, dbVars, mgrVars>>
otherThanDlna == <<pipeVars, argsVars, dbVars, mgrVars>>
otherThanDb == <<pipeVars, argsVars, dlnaVars, mgrVars>>
otherThanMgr == <<pipeVars, argsVars, dlnaVars, holders, dbpc, dbctx, dbres>>

vars == <<pipeVars, argsVars, svcVars>>

reqVars == <<path, mime, argsVars, svcVars>>
ctxVars == <<reqCtx, client>>
lockVars == <<lockCtx, readLocks, released, writer, attached>>
procVars == <<proc, nOut, outPipe, nErr, errPipe>>
waitVars == <<waited, waitErr, outClosed>>
drainVars == <<errStr, dpc>>
respVars == <<header, sent>>

\* no argument generation under way
NoStreamManager ==
  [hwCodecMP4Compatible |-> Nil, hwCodecWEBMCompatible |-> Nil,
   TranscodeHardwareAcceleration |-> FALSE,
   MaxStreamingTranscodeSize |-> "FULL_HD",
   LiveTranscodeInputArgs |-> <<>>, LiveTranscodeOutputArgs |-> <<>>]

NoOptions ==
  [StreamType |-> MimeMp4Video, AudioCodec |-> MissingUnsupported,
   Width |-> 0, Height |-> 0, Resolution |-> "", StartTime |-> 0, Path |-> ""]

NoCall ==
  [fn |-> "none", mimetype |-> "", codec |-> "", videoFilter |-> "",
   videoOnly |-> FALSE, width |-> 0, height |-> 0, max |-> 0]

\* no slice returned, no array allocated
NoMem == [heap |-> <<>>, s |-> [arr |-> 0, len |-> 0]]

NoArgs ==
  /\ sm = NoStreamManager
  /\ options = NoOptions
  /\ call = NoCall
  /\ codec = ""
  /\ args = <<>>
  /\ filter = NoFilter
  /\ mem = NoMem

Init ==
  /\ NoArgs
  /\ dlna = NewService
  /\ now = 0
  /\ stopBy = <<>>
  /\ database = NewDatabase
  /\ holders = {}
  /\ dbpc = [c \in Callers |-> "idle"]
  /\ dbctx = [c \in Callers |-> "live"]
  /\ dbres = [c \in Callers |-> ""]
  /\ mgr = NewManager
  /\ mig = NoMigrate
  /\ pc = [r \in Reqs |-> "idle"]
  /\ path = [r \in Reqs |-> 1]
  /\ mime = [r \in Reqs |-> MimeMp4Video]
  /\ reqCtx = [r \in Reqs |-> "live"]
  /\ client = [r \in Reqs |-> "connected"]
  /\ lockCtx = [r \in Reqs |-> "none"]
  /\ readLocks = [p \in Paths |-> {}]
  /\ released = [r \in Reqs |-> 0]
  /\ writer = [p \in Paths |-> "idle"]
  /\ attached = [r \in Reqs |-> 0]
  /\ cmdCtx = [r \in Reqs |-> FALSE]
  /\ proc = [r \in Reqs |-> "none"]
  /\ waited = [r \in Reqs |-> 0]
  /\ waitErr = [r \in Reqs |-> "none"]
  /\ nOut = [r \in Reqs |-> 0]
  /\ outPipe = [r \in Reqs |-> <<>>]
  /\ outClosed = [r \in Reqs |-> FALSE]
  /\ buf = [r \in Reqs |-> <<>>]
  /\ nErr = [r \in Reqs |-> 0]
  /\ errPipe = [r \in Reqs |-> 0]
  /\ errStr = [r \in Reqs |-> 0]
  /\ dpc = [r \in Reqs |-> "none"]
  /\ err = [r \in Reqs |-> ""]
  /\ header = [r \in Reqs |-> NoHeaders]
  /\ sent = [r \in Reqs |-> NoResponse]
  /\ logs = [r \in Reqs |-> {}]

\* ------------------------------------------------ request context (net/http)
\* A cancelled context cancels the lock context derived from it; the
\* cancellation of a lock context terminates the process attached to it.
CancelLockContext(r) ==
  /\ lockCtx' = [lockCtx EXCEPT ![r] = IF @ = "live" THEN "done" ELSE @]
  /\ proc' = [proc EXCEPT ![r] =
                IF lockCtx[r] = "live" /\ attached[r] > 0 /\ @ = "running"
                  THEN "killed" ELSE @]

\* a stream request for a file, in one of the formats, reaches ServeTranscode
ArriveWith(r, formats) ==
  /\ pc[r] = "idle"
  /\ \E p \in Paths, m \in formats :
       /\ path' = [path EXCEPT ![r] = p]
       /\ mime' = [mime EXCEPT ![r] = m]
  /\ pc' = [pc EXCEPT ![r] = "ReadLock"]
  /\ UNCHANGED <<argsVars, svcVars, ctxVars, lockVars, cmdCtx, procVars, waitVars, buf,
                 drainVars, err, respVars, logs>>

Arrive(r) == ArriveWith(r, StreamTypeMimes)

\* the same, all requests asking for MP4
ArriveMp4(r) == ArriveWith(r, {MimeMp4Video})

\* the peer closes the connection
ClientDisconnect(r) ==
  /\ pc[r] \notin {"idle", "returned"}
  /\ client[r] = "connected"
  /\ client' = [client EXCEPT ![r] = "gone"]
  /\ UNCHANGED <<pc, reqVars, reqCtx, lockVars, cmdCtx, procVars, waitVars, buf,
                 drainVars, err, respVars, logs>>

\* the request context is cancelled while the handler runs (the server saw
\* the disconnect, or it is shutting down)
CancelRequest(r) ==
  /\ pc[r] \notin {"idle", "returned"}
  /\ reqCtx[r] = "live"
  /\ reqCtx' = [reqCtx EXCEPT ![r] = "done"]
  /\ CancelLockContext(r)
  /\ UNCHANGED <<pc, reqVars, client, readLocks, released, writer, attached,
                 cmdCtx, nOut, outPipe, nErr, errPipe, waitVars, buf, drainVars,
                 err, respVars, logs>>

\* the server cancels the request context once the handler has returned
ServerFinish(r) ==
  /\ pc[r] = "returned"
  /\ reqCtx[r] = "live"
  /\ reqCtx' = [reqCtx EXCEPT ![r] = "done"]
  /\ CancelLockContext(r)
  /\ UNCHANGED <<pc, reqVars, client, readLocks, released, writer, attached,
                 cmdCtx, nOut, outPipe, nErr, errPipe, waitVars, buf, drainVars,
                 err, respVars, logs>>

\* ------------------------------------------------------ read-lock manager
\* a reader is admitted unless a writer holds the path
ReadLockAvailable(p) == writer[p] # "active"

\* the lock manager drops the entry of a lock context that is done
Unlock(r) ==
  /\ lockCtx[r] = "done"
  /\ r \in readLocks[path[r]]
  /\ readLocks' = [readLocks EXCEPT ![path[r]] = @ \ {r}]
  /\ released' = [released EXCEPT ![r] = @ + 1]
  /\ UNCHANGED <<pc, reqVars, ctxVars, lockCtx, writer, attached, cmdCtx,
                 procVars, waitVars, buf, drainVars, err, respVars, logs>>

\* a file-modification operation asks for the path (one operation at a time)
WriterRequest(p) ==
  /\ \A q \in Paths : writer[q] = "idle"
  /\ writer' = [writer EXCEPT ![p] = "waiting"]
  /\ UNCHANGED <<pc, reqVars, ctxVars, lockCtx, readLocks, released, attached,
                 cmdCtx, procVars, waitVars, buf, drainVars, err, respVars, logs>>

\* the waiting operation revokes a read lock: LockContext.Cancel
LockContextCancel(r) ==
  /\ writer[path[r]] = "waiting"
  /\ lockCtx[r] = "live"
  /\ CancelLockContext(r)
  /\ UNCHANGED <<pc, reqVars, ctxVars, readLocks, released, writer, attached,
                 cmdCtx, nOut, outPipe, nErr, errPipe, waitVars, buf, drainVars,
                 err, respVars, logs>>

\* a writer that does not wait for the readers
WriterAcquireAnyway(p) ==
  /\ writer[p] = "waiting"
  /\ writer' = [writer EXCEPT ![p] = "active"]
  /\ UNCHANGED <<pc, reqVars, ctxVars, lockCtx, readLocks, released, attached,
                 cmdCtx, procVars, waitVars, buf, drainVars, err, respVars, logs>>

\* the operation proceeds once no read lock is left on the path
WriterAcquire(p) ==
  /\ writer[p] = "waiting"
  /\ readLocks[p] = {}
  /\ writer' = [writer EXCEPT ![p] = "active"]
  /\ UNCHANGED <<pc, reqVars, ctxVars, lockCtx, readLocks, released, attached,
                 cmdCtx, procVars, waitVars, buf, drainVars, err, respVars, logs>>

WriterRelease(p) ==
  /\ writer[p] = "active"
  /\ writer' = [writer EXCEPT ![p] = "idle"]
  /\ UNCHANGED <<pc, reqVars, ctxVars, lockCtx, readLocks, released, attached,
                 cmdCtx, procVars, waitVars, buf, drainVars, err, respVars, logs>>

\* ------------------------------------------------------- http.ResponseWriter
\* w.WriteHeader(code): the headers set so far go out with the status
WriteHeader(resp, hdr, code) ==
  [resp EXCEPT !.status = Append(@, [code |-> code, header |-> hdr])]

\* a Write or Flush before any WriteHeader sends an implicit 200
ImplicitHeader(resp, hdr) ==
  IF resp.status = <<>> THEN WriteHeader(resp, hdr, StatusOK) ELSE resp

\* ------------------------------------------------------------ ServeTranscode
\* ReadLock with a lock context that is no child of the request context
ReadLockDetached(r) ==
  /\ pc[r] = "ReadLock"
  /\ ReadLockAvailable(path[r])
  /\ readLocks' = [readLocks EXCEPT ![path[r]] = @ \cup {r}]
  /\ lockCtx' = [lockCtx EXCEPT ![r] = "detached"]
  /\ pc' = [pc EXCEPT ![r] = "Command"]
  /\ UNCHANGED <<reqVars, ctxVars, released, writer, attached, cmdCtx, procVars,
                 waitVars, buf, drainVars, err, respVars, logs>>

\* ReadLock with one lock for all paths: a writer on any path holds it up
ReadLockGlobal(r) ==
  /\ pc[r] = "ReadLock"
  /\ \/ /\ reqCtx[r] = "live"
        /\ \A p \in Paths : ReadLockAvailable(p)
        /\ readLocks' = [readLocks EXCEPT ![path[r]] = @ \cup {r}]
        /\ lockCtx' = [lockCtx EXCEPT ![r] = "live"]
     \/ /\ reqCtx[r] = "done"
        /\ lockCtx' = [lockCtx EXCEPT ![r] = "done"]
        /\ UNCHANGED readLocks
  /\ pc' = [pc EXCEPT ![r] = "Command"]
  /\ UNCHANGED <<reqVars, ctxVars, released, writer, attached, cmdCtx, procVars,
                 waitVars, buf, drainVars, err, respVars, logs>>

\* lockCtx := sm.lockManager.ReadLock(streamRequestCtx, path): waits while a
\* writer holds the path; gives up without a lock if the request context is
\* cancelled first. The lock context is a child of the request context.
ReadLock(r) ==
  /\ pc[r] = "ReadLock"
  /\ \/ /\ reqCtx[r] = "live"
        /\ ReadLockAvailable(path[r])
        /\ readLocks' = [readLocks EXCEPT ![path[r]] = @ \cup {r}]
        /\ lockCtx' = [lockCtx EXCEPT ![r] = "live"]
     \/ /\ reqCtx[r] = "done"
        /\ lockCtx' = [lockCtx EXCEPT ![r] = "done"]
        /\ UNCHANGED readLocks
  /\ pc' = [pc EXCEPT ![r] = "Command"]
  /\ UNCHANGED <<reqVars, ctxVars, released, writer, attached, cmdCtx, procVars,
                 waitVars, buf, drainVars, err, respVars, logs>>

\* ServeError without the WriteHeader call: the Write sends an implicit 200
ServeErrorNoStatus(r) ==
  /\ pc[r] = "error"
  /\ IF client[r] = "connected"
       THEN /\ sent' = [sent EXCEPT ![r] =
                          [ImplicitHeader(@, header[r]) EXCEPT
                             !.text = Append(@, err[r])]]
            /\ logs' = [logs EXCEPT ![r] = @ \cup {"error transcoding video file"}]
       ELSE /\ UNCHANGED sent
            /\ logs' = [logs EXCEPT ![r] =
                          @ \cup {"error transcoding video file",
                                  "error writing response"}]
  /\ pc' = [pc EXCEPT ![r] = "returned"]
  /\ UNCHANGED <<reqVars, ctxVars, lockVars, cmdCtx, procVars, waitVars, buf,
                 drainVars, err, header>>

\* ServeError without its return statement: after the 400 the handler is called
ServeErrorFallsThrough(r) ==
  /\ pc[r] = "error"
  /\ LET resp == WriteHeader(sent[r], header[r], StatusBadRequest)
     IN  IF client[r] = "connected"
           THEN /\ sent' = [sent EXCEPT ![r] =
                              [resp EXCEPT !.text = Append(@, err[r])]]
                /\ logs' = [logs EXCEPT ![r] =
                              @ \cup {"error transcoding video file"}]
           ELSE /\ sent' = [sent EXCEPT ![r] = resp]
                /\ logs' = [logs EXCEPT ![r] =
                              @ \cup {"error transcoding video file",
                                      "error writing response"}]
  /\ pc' = [pc EXCEPT ![r] = "handler"]
  /\ UNCHANGED <<reqVars, ctxVars, lockVars, cmdCtx, procVars, waitVars, buf,
                 drainVars, err, header>>

\* if err != nil: log, w.WriteHeader(http.StatusBadRequest),
\* w.Write([]byte(err.Error())) with a failed write logged as a warning, return
ServeError(r) ==
  /\ pc[r] = "error"
  /\ LET resp == WriteHeader(sent[r], header[r], StatusBadRequest)
     IN  IF client[r] = "connected"
           THEN /\ sent' = [sent EXCEPT ![r] =
                              [resp EXCEPT !.text = Append(@, err[r])]]
                /\ logs' = [logs EXCEPT ![r] =
                              @ \cup {"error transcoding video file"}]
           ELSE /\ sent' = [sent EXCEPT ![r] = resp]
                /\ logs' = [logs EXCEPT ![r] =
                              @ \cup {"error transcoding video file",
                                      "error writing response"}]
  /\ pc' = [pc EXCEPT ![r] = "returned"]
  /\ UNCHANGED <<reqVars, ctxVars, lockVars, cmdCtx, procVars, waitVars, buf,
                 drainVars, err, header>>

\* -------------------------------------------------------- getTranscodeStream
\* Command with a command that is not bound to the lock context
CommandNoContext(r) ==
  /\ pc[r] = "Command"
  /\ \E res \in {"ok", "stdout pipe", "stderr pipe"} :
       IF res = "ok"
         THEN /\ pc' = [pc EXCEPT ![r] = "Start"]
              /\ UNCHANGED <<err, logs>>
         ELSE /\ pc' = [pc EXCEPT ![r] = "error"]
              /\ err' = [err EXCEPT ![r] = res]
              /\ logs' = [logs EXCEPT ![r] = @ \cup {"ffmpeg pipe not available"}]
  /\ UNCHANGED <<reqVars, ctxVars, lockVars, cmdCtx, procVars, waitVars, buf,
                 drainVars, respVars>>

\* Command that goes on to Start although the stderr pipe failed
CommandIgnoresStderrPipe(r) ==
  /\ pc[r] = "Command"
  /\ cmdCtx' = [cmdCtx EXCEPT ![r] = TRUE]
  /\ \E res \in {"ok", "stdout pipe", "stderr pipe"} :
       CASE res = "ok" ->
              /\ pc' = [pc EXCEPT ![r] = "Start"]
              /\ UNCHANGED <<err, logs>>
         [] res = "stdout pipe" ->
              /\ pc' = [pc EXCEPT ![r] = "error"]
              /\ err' = [err EXCEPT ![r] = res]
              /\ logs' = [logs EXCEPT ![r] = @ \cup {"ffmpeg stdout not available"}]
         [] res = "stderr pipe" ->
              /\ pc' = [pc EXCEPT ![r] = "Start"]
              /\ err' = [err EXCEPT ![r] = res]
              /\ logs' = [logs EXCEPT ![r] = @ \cup {"ffmpeg stderr not available"}]
  /\ UNCHANGED <<reqVars, ctxVars, lockVars, procVars, waitVars, buf, drainVars,
                 respVars>>

\* cmd := sm.encoder.Command(ctx, args); cmd.StdoutPipe(); cmd.StderrPipe():
\* the command is bound to the lock context; either pipe may fail
Command(r) ==
  /\ pc[r] = "Command"
  /\ cmdCtx' = [cmdCtx EXCEPT ![r] = TRUE]
  /\ \E res \in {"ok", "stdout pipe", "stderr pipe"} :
       IF res = "ok"
         THEN /\ pc' = [pc EXCEPT ![r] = "Start"]
              /\ UNCHANGED <<err, logs>>
         ELSE /\ pc' = [pc EXCEPT ![r] = "error"]
              /\ err' = [err EXCEPT ![r] = res]
              /\ logs' = [logs EXCEPT ![r] =
                            @ \cup {IF res = "stdout pipe"
                                      THEN "ffmpeg stdout not available"
                                      ELSE "ffmpeg stderr not available"}]
  /\ UNCHANGED <<reqVars, ctxVars, lockVars, procVars, waitVars, buf, drainVars,
                 respVars>>

\* Start that does not look at the context of the command
StartIgnoringContext(r) ==
  /\ pc[r] = "Start"
  /\ \E ok \in BOOLEAN :
       IF ok
         THEN /\ proc' = [proc EXCEPT ![r] = "running"]
              /\ pc' = [pc EXCEPT ![r] = "AttachCommand"]
              /\ UNCHANGED err
         ELSE /\ pc' = [pc EXCEPT ![r] = "error"]
              /\ err' = [err EXCEPT ![r] = "start"]
              /\ UNCHANGED proc
  /\ UNCHANGED <<reqVars, ctxVars, lockVars, cmdCtx, nOut, outPipe, nErr, errPipe,
                 waitVars, buf, drainVars, respVars, logs>>

\* Start with ctx.AttachCommand(cmd) moved before it: the command is attached
\* whether or not it starts
StartAfterAttach(r) ==
  /\ pc[r] = "Start"
  /\ attached' = [attached EXCEPT ![r] = @ + 1]
  /\ IF cmdCtx[r] /\ lockCtx[r] = "done"
       THEN /\ pc' = [pc EXCEPT ![r] = "error"]
            /\ err' = [err EXCEPT ![r] = "context canceled"]
            /\ UNCHANGED proc
       ELSE \E ok \in BOOLEAN :
              IF ok
                THEN /\ proc' = [proc EXCEPT ![r] = "running"]
                     /\ pc' = [pc EXCEPT ![r] = "AttachCommand"]
                     /\ UNCHANGED err
                ELSE /\ pc' = [pc EXCEPT ![r] = "error"]
                     /\ err' = [err EXCEPT ![r] = "start"]
                     /\ UNCHANGED proc
  /\ UNCHANGED <<reqVars, ctxVars, lockCtx, readLocks, released, writer, cmdCtx,
                 nOut, outPipe, nErr, errPipe, waitVars, buf, drainVars,
                 respVars, logs>>

\* err = cmd.Start(): a command whose context is already done is not started
Start(r) ==
  /\ pc[r] = "Start"
  /\ IF cmdCtx[r] /\ lockCtx[r] = "done"
       THEN /\ pc' = [pc EXCEPT ![r] = "error"]
            /\ err' = [err EXCEPT ![r] = "context canceled"]
            /\ UNCHANGED proc
       ELSE \E ok \in BOOLEAN :
              IF ok
                THEN /\ proc' = [proc EXCEPT ![r] = "running"]
                     /\ pc' = [pc EXCEPT ![r] = "AttachCommand"]
                     /\ UNCHANGED err
                ELSE /\ pc' = [pc EXCEPT ![r] = "error"]
                     /\ err' = [err EXCEPT ![r] = "start"]
                     /\ UNCHANGED proc
  /\ UNCHANGED <<reqVars, ctxVars, lockVars, cmdCtx, nOut, outPipe, nErr, errPipe,
                 waitVars, buf, drainVars, respVars, logs>>

\* AttachCommand without the go statement: nothing reads stderr
AttachCommandNoDrain(r) ==
  /\ pc[r] = "AttachCommand"
  /\ attached' = [attached EXCEPT ![r] = @ + 1]
  /\ pc' = [pc EXCEPT ![r] = "handler"]
  /\ UNCHANGED <<reqVars, ctxVars, lockCtx, readLocks, released, writer, cmdCtx,
                 procVars, waitVars, buf, drainVars, err, respVars, logs>>

\* AttachCommand on a lock context shared by the requests (that of the first)
\* instead of the one ReadLock returned to this request
AttachCommandShared(r) ==
  /\ pc[r] = "AttachCommand"
  /\ attached' = [attached EXCEPT ![Stream] = @ + 1]
  /\ dpc' = [dpc EXCEPT ![r] = "ReadAll"]
  /\ pc' = [pc EXCEPT ![r] = "handler"]
  /\ UNCHANGED <<reqVars, ctxVars, lockCtx, readLocks, released, writer, cmdCtx,
                 procVars, waitVars, buf, errStr, err, respVars, logs>>

\* ctx.AttachCommand(cmd); go func() { ... }(): the command is recorded in the
\* lock context and the drain goroutine starts; the handler is returned with a
\* nil error
AttachCommand(r) ==
  /\ pc[r] = "AttachCommand"
  /\ attached' = [attached EXCEPT ![r] = @ + 1]
  /\ dpc' = [dpc EXCEPT ![r] = "ReadAll"]
  /\ pc' = [pc EXCEPT ![r] = "handler"]
  /\ UNCHANGED <<reqVars, ctxVars, lockCtx, readLocks, released, writer, cmdCtx,
                 procVars, waitVars, buf, errStr, err, respVars, logs>>

\* ------------------------------------------------- the handler (lines 261-274)
\* HandlerHeaders with WriteHeader called before the headers are set
HandlerHeadersLate(r) ==
  /\ pc[r] = "handler"
  /\ sent' = [sent EXCEPT ![r] = WriteHeader(@, header[r], StatusOK)]
  /\ header' = [header EXCEPT ![r] = [cache |-> "no-store", ctype |-> mime[r]]]
  /\ pc' = [pc EXCEPT ![r] = "CopyRead"]
  /\ UNCHANGED <<reqVars, ctxVars, lockVars, cmdCtx, procVars, waitVars, buf,
                 drainVars, err, logs>>

\* w.Header().Set("Cache-Control", "no-store")
\* w.Header().Set("Content-Type", mimeType)
\* w.WriteHeader(http.StatusOK)
HandlerHeaders(r) ==
  /\ pc[r] = "handler"
  /\ LET h1 == [header[r] EXCEPT !.cache = "no-store"]
         h2 == [h1 EXCEPT !.ctype = mime[r]]
     IN  /\ header' = [header EXCEPT ![r] = h2]
         /\ sent' = [sent EXCEPT ![r] = WriteHeader(@, h2, StatusOK)]
  /\ pc' = [pc EXCEPT ![r] = "CopyRead"]
  /\ UNCHANGED <<reqVars, ctxVars, lockVars, cmdCtx, procVars, waitVars, buf,
                 drainVars, err, logs>>

\* CopyRead that leaves what it has read in the pipe
CopyReadNoAdvance(r) ==
  /\ pc[r] = "CopyRead"
  /\ \/ /\ outClosed[r]
        /\ err' = [err EXCEPT ![r] = "file already closed"]
        /\ pc' = [pc EXCEPT ![r] = "CopyDone"]
        /\ UNCHANGED buf
     \/ /\ ~outClosed[r]
        /\ outPipe[r] # <<>>
        /\ buf' = [buf EXCEPT ![r] = outPipe[r]]
        /\ pc' = [pc EXCEPT ![r] = "CopyWrite"]
        /\ UNCHANGED err
     \/ /\ ~outClosed[r]
        /\ outPipe[r] = <<>>
        /\ proc[r] # "running"
        /\ pc' = [pc EXCEPT ![r] = "CopyDone"]
        /\ UNCHANGED <<buf, err>>
  /\ UNCHANGED <<reqVars, ctxVars, lockVars, cmdCtx, procVars, waitVars,
                 drainVars, respVars, logs>>

\* io.Copy(w, stdout), the read half: what the pipe holds is taken in order;
\* a closed pipe gives a read error, an empty pipe of an ended process EOF
CopyRead(r) ==
  /\ pc[r] = "CopyRead"
  /\ \/ /\ outClosed[r]
        /\ err' = [err EXCEPT ![r] = "file already closed"]
        /\ pc' = [pc EXCEPT ![r] = "CopyDone"]
        /\ UNCHANGED <<buf, outPipe>>
     \/ /\ ~outClosed[r]
        /\ outPipe[r] # <<>>
        /\ buf' = [buf EXCEPT ![r] = outPipe[r]]
        /\ outPipe' = [outPipe EXCEPT ![r] = <<>>]
        /\ pc' = [pc EXCEPT ![r] = "CopyWrite"]
        /\ UNCHANGED err
     \/ /\ ~outClosed[r]
        /\ outPipe[r] = <<>>
        /\ proc[r] # "running"
        /\ pc' = [pc EXCEPT ![r] = "CopyDone"]
        /\ UNCHANGED <<buf, outPipe, err>>
  /\ UNCHANGED <<reqVars, ctxVars, lockVars, cmdCtx, proc, nOut, nErr, errPipe,
                 waitVars, drainVars, respVars, logs>>

\* io.Copy(w, stdout), the write half: the buffer goes to the response, or the
\* write fails because the peer is gone (EPIPE or another transport error)
CopyWrite(r) ==
  /\ pc[r] = "CopyWrite"
  /\ \/ /\ client[r] = "connected"
        /\ sent' = [sent EXCEPT ![r] =
                      [ImplicitHeader(@, header[r]) EXCEPT !.body = @ \o buf[r]]]
        /\ pc' = [pc EXCEPT ![r] = "CopyRead"]
        /\ UNCHANGED err
     \/ /\ client[r] = "gone"
        /\ \E e \in {"EPIPE", "connection reset"} : err' = [err EXCEPT ![r] = e]
        /\ pc' = [pc EXCEPT ![r] = "CopyDone"]
        /\ UNCHANGED sent
  /\ buf' = [buf EXCEPT ![r] = <<>>]
  /\ UNCHANGED <<reqVars, ctxVars, lockVars, cmdCtx, procVars, waitVars,
                 drainVars, header, logs>>

\* CopyDone that returns without the Flush
CopyDoneNoFlush(r) ==
  /\ pc[r] = "CopyDone"
  /\ logs' = [logs EXCEPT ![r] =
                IF err[r] # "" /\ err[r] # "EPIPE"
                  THEN @ \cup {"error serving transcoded video file"} ELSE @]
  /\ pc' = [pc EXCEPT ![r] = "returned"]
  /\ UNCHANGED <<reqVars, ctxVars, lockVars, cmdCtx, procVars, waitVars, buf,
                 drainVars, err, header, sent>>

\* CopyDone that reports a failed copy to the peer
CopyDoneReportsError(r) ==
  /\ pc[r] = "CopyDone"
  /\ logs' = [logs EXCEPT ![r] =
                IF err[r] # "" /\ err[r] # "EPIPE"
                  THEN @ \cup {"error serving transcoded video file"} ELSE @]
  /\ sent' = [sent EXCEPT ![r] =
                IF err[r] # "" /\ err[r] # "EPIPE"
                  THEN [WriteHeader(@, header[r], StatusBadRequest) EXCEPT
                          !.text = Append(@, err[r])]
                  ELSE [ImplicitHeader(@, header[r]) EXCEPT !.flushes = @ + 1]]
  /\ pc' = [pc EXCEPT ![r] = "returned"]
  /\ UNCHANGED <<reqVars, ctxVars, lockVars, cmdCtx, procVars, waitVars, buf,
                 drainVars, err, header>>

\* CopyDone that reports the exit of the process: after the copy it looks at
\* the exit status and writes the failure to the response
CopyDoneSurfacesExit(r) ==
  /\ pc[r] = "CopyDone"
  /\ logs' = [logs EXCEPT ![r] =
                IF err[r] # "" /\ err[r] # "EPIPE"
                  THEN @ \cup {"error serving transcoded video file"} ELSE @]
  /\ sent' = [sent EXCEPT ![r] =
                IF proc[r] \in {"exit1", "killed"}
                  THEN [ImplicitHeader(@, header[r]) EXCEPT
                          !.text = Append(@, "ExitError")]
                  ELSE [ImplicitHeader(@, header[r]) EXCEPT !.flushes = @ + 1]]
  /\ pc' = [pc EXCEPT ![r] = "returned"]
  /\ UNCHANGED <<reqVars, ctxVars, lockVars, cmdCtx, procVars, waitVars, buf,
                 drainVars, err, header>>

\* CopyDone without the errors.Is(err, syscall.EPIPE) test: every error of the
\* copy is logged
CopyDoneLogsEPIPE(r) ==
  /\ pc[r] = "CopyDone"
  /\ logs' = [logs EXCEPT ![r] =
                IF err[r] # ""
                  THEN @ \cup {"error serving transcoded video file"} ELSE @]
  /\ sent' = [sent EXCEPT ![r] =
                [ImplicitHeader(@, header[r]) EXCEPT !.flushes = @ + 1]]
  /\ pc' = [pc EXCEPT ![r] = "returned"]
  /\ UNCHANGED <<reqVars, ctxVars, lockVars, cmdCtx, procVars, waitVars, buf,
                 drainVars, err, header>>

\* if err != nil && !errors.Is(err, syscall.EPIPE) { logger.Errorf(...) }
\* w.(http.Flusher).Flush(); the handler and ServeTranscode return
CopyDone(r) ==
  /\ pc[r] = "CopyDone"
  /\ logs' = [logs EXCEPT ![r] =
                IF err[r] # "" /\ err[r] # "EPIPE"
                  THEN @ \cup {"error serving transcoded video file"} ELSE @]
  /\ sent' = [sent EXCEPT ![r] =
                [ImplicitHeader(@, header[r]) EXCEPT !.flushes = @ + 1]]
  /\ pc' = [pc EXCEPT ![r] = "returned"]
  /\ UNCHANGED <<reqVars, ctxVars, lockVars, cmdCtx, procVars, waitVars, buf,
                 drainVars, err, header>>

\* ------------------------------------------------------ the encoder process
\* the k-th byte written to stdout is k; a full pipe blocks the writer
EncoderWriteStdout(r) ==
  /\ proc[r] = "running"
  /\ nOut[r] < MaxOut
  /\ Len(outPipe[r]) < OutPipeCap
  /\ nOut' = [nOut EXCEPT ![r] = @ + 1]
  /\ outPipe' = [outPipe EXCEPT ![r] = Append(@, nOut[r] + 1)]
  /\ UNCHANGED <<pc, reqVars, ctxVars, lockVars, cmdCtx, proc, nErr, errPipe,
                 waitVars, buf, drainVars, err, respVars, logs>>

EncoderWriteStderr(r) ==
  /\ proc[r] = "running"
  /\ nErr[r] < MaxErr
  /\ errPipe[r] < ErrPipeCap
  /\ nErr' = [nErr EXCEPT ![r] = @ + 1]
  /\ errPipe' = [errPipe EXCEPT ![r] = @ + 1]
  /\ UNCHANGED <<pc, reqVars, ctxVars, lockVars, cmdCtx, proc, nOut, outPipe,
                 waitVars, buf, drainVars, err, respVars, logs>>

\* the process ends by itself, with exit status 0 or not
EncoderExit(r) ==
  /\ proc[r] = "running"
  /\ \E st \in {"exit0", "exit1"} : proc' = [proc EXCEPT ![r] = st]
  /\ UNCHANGED <<pc, reqVars, ctxVars, lockVars, cmdCtx, nOut, outPipe, nErr,
                 errPipe, waitVars, buf, drainVars, err, respVars, logs>>

\* the command context: a started command whose context is done is killed
\* (line 266: "process killing should be handled by command context")
KillByContext(r) ==
  /\ proc[r] = "running"
  /\ cmdCtx[r]
  /\ lockCtx[r] = "done"
  /\ proc' = [proc EXCEPT ![r] = "killed"]
  /\ UNCHANGED <<pc, reqVars, ctxVars, lockVars, cmdCtx, nOut, outPipe, nErr,
                 errPipe, waitVars, buf, drainVars, err, respVars, logs>>

\* ------------------------------------------- the drain goroutine (239-258)
\* errStr, _ := io.ReadAll(stderr): takes what the pipe holds
ReadAll(r) ==
  /\ dpc[r] = "ReadAll"
  /\ errPipe[r] > 0
  /\ errStr' = [errStr EXCEPT ![r] = @ + errPipe[r]]
  /\ errPipe' = [errPipe EXCEPT ![r] = 0]
  /\ UNCHANGED <<pc, reqVars, ctxVars, lockVars, cmdCtx, proc, nOut, outPipe,
                 nErr, waitVars, buf, dpc, err, respVars, logs>>

\* ReadAllEOF that takes an empty pipe for the end of the file
ReadAllEOFEarly(r) ==
  /\ dpc[r] = "ReadAll"
  /\ errPipe[r] = 0
  /\ dpc' = [dpc EXCEPT ![r] = "Wait"]
  /\ UNCHANGED <<pc, reqVars, ctxVars, lockVars, cmdCtx, procVars, waitVars, buf,
                 errStr, err, respVars, logs>>

\* io.ReadAll returns at end-of-file: the pipe is empty and the process ended
ReadAllEOF(r) ==
  /\ dpc[r] = "ReadAll"
  /\ errPipe[r] = 0
  /\ proc[r] # "running"
  /\ dpc' = [dpc EXCEPT ![r] = "Wait"]
  /\ UNCHANGED <<pc, reqVars, ctxVars, lockVars, cmdCtx, procVars, waitVars, buf,
                 errStr, err, respVars, logs>>

\* errCmd of cmd.Wait(): nil after exit status 0, else an *exec.ExitError
WaitError(st) == IF st = "exit0" THEN "" ELSE "ExitError"

\* what cmd.Wait() can return for an ended process: the above, or an error of
\* another type when waiting itself failed (an I/O problem)
WaitResults(st) == {WaitError(st), "wait failed"}

\* err is errors.New(e) if e != "", else errCmd
DrainError(e, errCmd) == IF e > 0 THEN "stderr text" ELSE errCmd

\* the end of the drain goroutine without the call of cmd.Wait()
DrainWithoutWait(r) ==
  /\ dpc[r] = "Wait"
  /\ logs' = [logs EXCEPT ![r] =
                IF errStr[r] > 0
                  THEN @ \cup {"ffmpeg error when running command"} ELSE @]
  /\ dpc' = [dpc EXCEPT ![r] = "done"]
  /\ UNCHANGED <<pc, reqVars, ctxVars, lockVars, cmdCtx, procVars, waitVars, buf,
                 errStr, err, respVars>>

\* Wait without the errors.As(err, &exitError) test: the exit error of a
\* killed process is logged like any other error
WaitLogsExitError(r) ==
  /\ dpc[r] = "Wait"
  /\ proc[r] # "running"
  /\ waited' = [waited EXCEPT ![r] = @ + 1]
  /\ outClosed' = [outClosed EXCEPT ![r] = TRUE]
  /\ \E errCmd \in WaitResults(proc[r]) :
       /\ waitErr' = [waitErr EXCEPT ![r] = errCmd]
       /\ LET e == DrainError(errStr[r], errCmd)
          IN  logs' = [logs EXCEPT ![r] =
                         IF e # ""
                           THEN @ \cup {"ffmpeg error when running command"}
                           ELSE @]
  /\ dpc' = [dpc EXCEPT ![r] = "done"]
  /\ UNCHANGED <<pc, reqVars, ctxVars, lockVars, cmdCtx, procVars, buf, errStr,
                 err, respVars>>

\* Wait that logs the stderr text only and drops errCmd
WaitStderrOnly(r) ==
  /\ dpc[r] = "Wait"
  /\ proc[r] # "running"
  /\ waited' = [waited EXCEPT ![r] = @ + 1]
  /\ outClosed' = [outClosed EXCEPT ![r] = TRUE]
  /\ \E errCmd \in WaitResults(proc[r]) :
       /\ waitErr' = [waitErr EXCEPT ![r] = errCmd]
       /\ logs' = [logs EXCEPT ![r] =
                     IF errStr[r] > 0
                       THEN @ \cup {"ffmpeg error when running command"}
                       ELSE @]
  /\ dpc' = [dpc EXCEPT ![r] = "done"]
  /\ UNCHANGED <<pc, reqVars, ctxVars, lockVars, cmdCtx, procVars, buf, errStr,
                 err, respVars>>

\* errCmd := cmd.Wait(): reaps the ended process and closes its pipes;
\* if err != nil && !errors.As(err, &exitError) { logger.Errorf(...) }
Wait(r) ==
  /\ dpc[r] = "Wait"
  /\ proc[r] # "running"
  /\ waited' = [waited EXCEPT ![r] = @ + 1]
  /\ outClosed' = [outClosed EXCEPT ![r] = TRUE]
  /\ \E errCmd \in WaitResults(proc[r]) :
       /\ waitErr' = [waitErr EXCEPT ![r] = errCmd]
       /\ LET e == DrainError(errStr[r], errCmd)
          IN  logs' = [logs EXCEPT ![r] =
                         IF e # "" /\ e # "ExitError"
                           THEN @ \cup {"ffmpeg error when running command"}
                           ELSE @]
  /\ dpc' = [dpc EXCEPT ![r] = "done"]
  /\ UNCHANGED <<pc, reqVars, ctxVars, lockVars, cmdCtx, procVars, buf, errStr,
                 err, respVars>>

\* ------------------------------------------------------------ specification
Handler(r) ==
  \/ ReadLock(r) \/ Command(r) \/ Start(r) \/ AttachCommand(r) \/ ServeError(r)
  \/ HandlerHeaders(r) \/ CopyRead(r) \/ CopyWrite(r) \/ CopyDone(r)

Drain(r) == ReadAll(r) \/ ReadAllEOF(r) \/ Wait(r)

Encoder(r) == EncoderWriteStdout(r) \/ EncoderWriteStderr(r) \/ EncoderExit(r)

Writer(p) == WriterRequest(p) \/ WriterAcquire(p) \/ WriterRelease(p)

\* one stream request, every step of its pipeline, and the writers
Next ==
  \/ Arrive(Stream)
  \/ ClientDisconnect(Stream)
  \/ CancelRequest(Stream)
  \/ ServerFinish(Stream)
  \/ Handler(Stream)
  \/ Drain(Stream)
  \/ Encoder(Stream)
  \/ KillByContext(Stream)
  \/ Unlock(Stream)
  \/ LockContextCancel(Stream)
  \/ \E p \in Paths : Writer(p)

Spec == Init /\ [][Next]_vars

\* Next for a request for MP4: the format decides the arguments of the
\* encoder and the Content-Type, and no step of the control flow
Mp4Next ==
  \/ ArriveMp4(Stream)
  \/ ClientDisconnect(Stream)
  \/ CancelRequest(Stream)
  \/ ServerFinish(Stream)
  \/ Handler(Stream)
  \/ Drain(Stream)
  \/ Encoder(Stream)
  \/ KillByContext(Stream)
  \/ Unlock(Stream)
  \/ LockContextCancel(Stream)
  \/ \E p \in Paths : Writer(p)

\* Goroutines that can take a step do take it; the server cancels the context
\* of a finished request; a done context is acted upon. Nothing obliges a
\* client to stay or leave, an encoder to write or end, or a writer to come.
Fairness ==
  /\ WF_vars(Handler(Stream))
  /\ WF_vars(Drain(Stream))
  /\ WF_vars(ServerFinish(Stream))
  /\ WF_vars(KillByContext(Stream))
  /\ WF_vars(Unlock(Stream))

FairSpec == Init /\ [][Mp4Next]_vars /\ Fairness

\* Only the drain goroutine and the statements up to the go statement are
\* scheduled fairly: the copy loop may stay blocked on its peer for ever.
DrainFairness ==
  /\ WF_vars(Drain(Stream))
  /\ WF_vars(AttachCommand(Stream))

DrainFairSpec == Init /\ [][Mp4Next]_vars /\ DrainFairness

\* All the requests at once, with peers that stay connected and encoders that
\* write nothing before they exit or are killed: what is left of Next when the
\* peers and the encoders behave so (CopyWrite and ReadAll then never run).
LockNext ==
  \/ \E r \in Reqs : ArriveMp4(r)
  \/ \E r \in Reqs : CancelRequest(r)
  \/ \E r \in Reqs : ServerFinish(r)
  \/ \E r \in Reqs : ReadLock(r)
  \/ \E r \in Reqs : Command(r)
  \/ \E r \in Reqs : Start(r)
  \/ \E r \in Reqs : AttachCommand(r)
  \/ \E r \in Reqs : ServeError(r)
  \/ \E r \in Reqs : HandlerHeaders(r)
  \/ \E r \in Reqs : CopyRead(r)
  \/ \E r \in Reqs : CopyDone(r)
  \/ \E r \in Reqs : ReadAllEOF(r)
  \/ \E r \in Reqs : Wait(r)
  \/ \E r \in Reqs : EncoderExit(r)
  \/ \E r \in Reqs : KillByContext(r)
  \/ \E r \in Reqs : Unlock(r)
  \/ \E r \in Reqs : LockContextCancel(r)
  \/ \E p \in Paths : Writer(p)

LockSpec == Init /\ [][LockNext]_vars


\* ------------------------------------------ argument generation, applied
\* what the hardware probe can answer, the settings and the extra arguments
StreamManagers ==
  [hwCodecMP4Compatible : {Nil} \cup HardwareCodecs,
   hwCodecWEBMCompatible : {Nil} \cup HardwareCodecs,
   TranscodeHardwareAcceleration : BOOLEAN,
   MaxStreamingTranscodeSize : {"FULL_HD"},
   LiveTranscodeInputArgs : {<<>>},
   LiveTranscodeOutputArgs : {<<>>}]

\* the stream managers whole argument lists are generated for
ArgsStreamManagers ==
  [hwCodecMP4Compatible : {Nil, VideoCodecN264, VideoCodecV264},
   hwCodecWEBMCompatible : {Nil, VideoCodecVVP9},
   TranscodeHardwareAcceleration : BOOLEAN,
   MaxStreamingTranscodeSize : {"STANDARD", "FULL_HD"},
   LiveTranscodeInputArgs : {<<>>, <<"-hwaccel", "auto">>},
   LiveTranscodeOutputArgs : {<<>>, <<"-ac", "6">>}]

\* the sizes of the source videos
Sizes ==
  {<<640, 480>>, <<1920, 1080>>, <<1080, 1920>>, <<853, 481>>, <<3840, 1634>>}

\* the requests: a format, the file's audio codec and size, a resolution
\* override, a start time
TranscodeOptionsSet ==
  {[StreamType |-> m, AudioCodec |-> a, Width |-> d[1], Height |-> d[2],
    Resolution |-> res, StartTime |-> t, Path |-> "video.avi"] :
     m \in StreamTypeMimes, a \in {MissingUnsupported, "aac", "dts"},
     d \in Sizes, res \in {"", "LOW", "STANDARD_HD"}, t \in {0, 30}}

\* the spare capacity the configuration's lists may have
Spares == {0, 1}

\* codec = FileGetCodec(sm, mimetype)
CallFileGetCodec ==
  /\ call.fn = "none"
  /\ \E s \in StreamManagers, m \in StreamTypeMimes :
       /\ sm' = s
       /\ call' = [NoCall EXCEPT !.fn = "FileGetCodec", !.mimetype = m]
       /\ codec' = FileGetCodec(s, m)
  /\ UNCHANGED <<pipeVars, svcVars, options, args, filter, mem>>

\* args = CodecInit(codec)
CallCodecInit ==
  /\ call.fn = "none"
  /\ \E c \in VideoCodecs :
       /\ call' = [NoCall EXCEPT !.fn = "CodecInit", !.codec = c]
       /\ args' = CodecInit(c)
  /\ UNCHANGED <<pipeVars, svcVars, sm, options, codec, filter, mem>>

\* args = format.Args(codec, videoFilter, videoOnly), for each StreamFormat
CallStreamTypeArgs ==
  /\ call.fn = "none"
  /\ \E m \in StreamTypeMimes, c \in VideoCodecs,
        vf \in {"", "scale=1920:1080"}, vo \in BOOLEAN :
       /\ call' = [NoCall EXCEPT !.fn = "Args", !.mimetype = m, !.codec = c,
                                 !.videoFilter = vf, !.videoOnly = vo]
       /\ args' = StreamTypeArgs(m, c, vf, vo)
  /\ UNCHANGED <<pipeVars, svcVars, sm, options, codec, filter, mem>>

\* filter = sm.encoder.hwMaxResFilter(codec, width, height, max)
CallHwMaxResFilter ==
  /\ call.fn = "none"
  /\ \E c \in VideoCodecs, d \in Sizes,
        res \in {"LOW", "STANDARD", "STANDARD_HD", "FULL_HD", "FOUR_K"} :
       /\ call' = [NoCall EXCEPT !.fn = "hwMaxResFilter", !.codec = c,
                                 !.width = d[1], !.height = d[2],
                                 !.max = GetMaxResolution(res)]
       /\ filter' = hwMaxResFilter(c, d[1], d[2], GetMaxResolution(res))
  /\ UNCHANGED <<pipeVars, svcVars, sm, options, codec, args, mem>>

\* args = options.makeStreamArgs(sm); filter is the video filter it computed
\* on the way, mem the arrays it worked on
CallMakeStreamArgs ==
  /\ call.fn = "none"
  /\ \E s \in ArgsStreamManagers, o \in TranscodeOptionsSet, spare \in Spares :
       /\ sm' = s
       /\ options' = o
       /\ call' = [NoCall EXCEPT !.fn = "makeStreamArgs"]
       /\ filter' = StreamFilter(o, s)
       /\ mem' = makeStreamArgsOnHeap(o, s, ConfigHeap(s, spare))
       /\ args' = makeStreamArgs(o, s)
  /\ UNCHANGED <<pipeVars, svcVars, codec>>

\* the result is taken; the next call starts afresh
CallReturn ==
  /\ call.fn # "none"
  /\ sm' = NoStreamManager
  /\ options' = NoOptions
  /\ call' = NoCall
  /\ codec' = ""
  /\ args' = <<>>
  /\ filter' = NoFilter
  /\ mem' = NoMem
  /\ UNCHANGED <<pipeVars, svcVars>>

ArgsNext ==
  \/ CallFileGetCodec
  \/ CallCodecInit
  \/ CallStreamTypeArgs
  \/ CallHwMaxResFilter
  \/ CallMakeStreamArgs
  \/ CallReturn

ArgsSpec == Init /\ [][ArgsNext]_vars

\* ----------------------------------------------------- DLNA service, called
\* s.Start(duration) by a caller
CallServiceStart ==
  \E duration \in {<<>>} \cup Durations, ok \in BOOLEAN :
    LET s == ServiceStart(dlna, duration, ok, now)
    IN  /\ Len(s.timers) <= MaxTimers
        /\ dlna' = s
        /\ stopBy' = IF ~StartError(dlna, ok) /\ duration # <<>>
                       THEN <<now + duration[1]>> ELSE stopBy
        /\ UNCHANGED <<otherThanDlna, now>>

\* s.Stop(duration) by a caller
CallServiceStop ==
  \E duration \in {<<>>} \cup Durations :
    LET s == ServiceStop(dlna, duration, now)
    IN  /\ Len(s.timers) <= MaxTimers
        /\ dlna' = s
        /\ stopBy' = IF s.running THEN stopBy ELSE <<>>
        /\ UNCHANGED <<otherThanDlna, now>>

\* a pending timer is due: the runtime starts its function in a goroutine
TimerFire(t) ==
  /\ t <= Len(dlna.timers)
  /\ dlna.timers[t].state = "pending"
  /\ dlna.timers[t].due <= now
  /\ dlna' = [dlna EXCEPT !.timers[t].state = "fired"]
  /\ UNCHANGED <<otherThanDlna, now, stopBy>>

\* the function of a fired timer gets the mutex: s.Stop(nil) or s.Start(nil)
TimerCallback(t) ==
  /\ t <= Len(dlna.timers)
  /\ dlna.timers[t].state = "fired"
  /\ \E ok \in BOOLEAN :
       LET s0 == [dlna EXCEPT !.timers[t].state = "done"]
           s == IF dlna.timers[t].kind = "stop"
                  THEN ServiceStop(s0, <<>>, now)
                  ELSE ServiceStart(s0, <<>>, ok, now)
       IN  /\ dlna' = s
           /\ stopBy' = IF s.running THEN stopBy ELSE <<>>
  /\ UNCHANGED <<otherThanDlna, now>>

\* time passes once every timer that is due has fired and its function has run
Tick ==
  /\ now < MaxTime
  /\ \A t \in 1..Len(dlna.timers) :
       /\ dlna.timers[t].state # "fired"
       /\ ~(dlna.timers[t].state = "pending" /\ dlna.timers[t].due <= now)
  /\ now' = now + 1
  /\ UNCHANGED <<otherThanDlna, dlna, stopBy>>

DlnaNext ==
  \/ CallServiceStart
  \/ CallServiceStop
  \/ \E t \in 1..MaxTimers : TimerFire(t)
  \/ \E t \in 1..MaxTimers : TimerCallback(t)
  \/ Tick

DlnaSpec == Init /\ [][DlnaNext]_vars


\* ------------------------------------------------ Database write lock, used
\* a caller asks for the write lock with a context of its own
CallLock(c) ==
  /\ dbpc[c] = "idle"
  /\ dbpc' = [dbpc EXCEPT ![c] = "lock"]
  /\ dbctx' = [dbctx EXCEPT ![c] = "live"]
  /\ dbres' = [dbres EXCEPT ![c] = ""]
  /\ UNCHANGED <<otherThanDb, database, holders>>

\* the context given to lock is cancelled while the caller waits
CancelContext(c) ==
  /\ dbpc[c] = "lock"
  /\ dbctx[c] = "live"
  /\ dbctx' = [dbctx EXCEPT ![c] = "done"]
  /\ UNCHANGED <<otherThanDb, database, holders, dbpc, dbres>>

\* lock that takes a cancelled context for success
lockNilOnDone(c) ==
  /\ dbpc[c] = "lock"
  /\ \/ /\ dbctx[c] = "done"
        /\ dbpc' = [dbpc EXCEPT ![c] = "locked"]
        /\ dbres' = [dbres EXCEPT ![c] = "nil"]
        /\ UNCHANGED <<database, holders>>
     \/ /\ database.lockChan < LockChanCap
        /\ database' = [database EXCEPT !.lockChan = @ + 1]
        /\ holders' = holders \cup {c}
        /\ dbpc' = [dbpc EXCEPT ![c] = "locked"]
        /\ dbres' = [dbres EXCEPT ![c] = "nil"]
  /\ UNCHANGED <<otherThanDb, dbctx>>

\* lock(ctx): the select takes whichever case is ready, ctx.Done() or the
\* send on lockChan, and waits while neither is
lock(c) ==
  /\ dbpc[c] = "lock"
  /\ \/ /\ dbctx[c] = "done"
        /\ dbpc' = [dbpc EXCEPT ![c] = "idle"]
        /\ dbres' = [dbres EXCEPT ![c] = "ctx error"]
        /\ UNCHANGED <<database, holders>>
     \/ /\ database.lockChan < LockChanCap
        /\ database' = [database EXCEPT !.lockChan = @ + 1]
        /\ holders' = holders \cup {c}
        /\ dbpc' = [dbpc EXCEPT ![c] = "locked"]
        /\ dbres' = [dbres EXCEPT ![c] = "nil"]
  /\ UNCHANGED <<otherThanDb, dbctx>>

\* lockNoCtx() at the head of Open or Close: the send on lockChan waits for room
lockNoCtx(c, fn) ==
  /\ dbpc[c] = "idle"
  /\ database.lockChan < LockChanCap
  /\ database' = [database EXCEPT !.lockChan = @ + 1]
  /\ holders' = holders \cup {c}
  /\ dbpc' = [dbpc EXCEPT ![c] = fn]
  /\ dbres' = [dbres EXCEPT ![c] = ""]
  /\ UNCHANGED <<otherThanDb, dbctx>>

\* unlock(): the select receives from lockChan if it holds an element and
\* panics if not; d is the Database the body of the caller left
unlocked(d) == IF d.lockChan > 0 THEN [d EXCEPT !.lockChan = @ - 1] ELSE d

\* unlock() by the caller that holds the lock, or by a caller while nobody
\* holds it
unlock(c) ==
  /\ \/ dbpc[c] = "locked"
     \/ dbpc[c] = "idle" /\ database.lockChan = 0
  /\ database' = unlocked(database)
  /\ holders' = holders \ {c}
  /\ dbpc' = [dbpc EXCEPT ![c] = "idle"]
  /\ dbres' = [dbres EXCEPT ![c] =
                 IF database.lockChan > 0 THEN "unlocked" ELSE "panic"]
  /\ UNCHANGED <<otherThanDb, dbctx>>

\* the returns of Open: what is returned, and whether db.db is set after it
OpenReturns ==
  {[res |-> "getting database schema version", opens |-> FALSE],
   [res |-> "error running initial schema migrations", opens |-> FALSE],
   [res |-> "error running initial schema migrations", opens |-> TRUE],
   [res |-> "MismatchedSchemaVersionError", opens |-> FALSE],
   [res |-> "MigrationNeededError", opens |-> FALSE],
   [res |-> "open error", opens |-> FALSE],
   [res |-> "nil", opens |-> TRUE]}

\* Open: db.lockNoCtx(), defer db.unlock()
Open(c) == lockNoCtx(c, "Open")

\* the body of Open returns, on one of its paths, and the deferred unlock runs
OpenReturn(c) ==
  /\ dbpc[c] = "Open"
  /\ \E ret \in OpenReturns :
       /\ database' = unlocked([database EXCEPT !.db =
                                  IF ret.opens THEN "open" ELSE @])
       /\ dbres' = [dbres EXCEPT ![c] = ret.res]
  /\ holders' = holders \ {c}
  /\ dbpc' = [dbpc EXCEPT ![c] = "idle"]
  /\ UNCHANGED <<otherThanDb, dbctx>>

\* Close: db.lockNoCtx(), defer db.unlock()
Close(c) == lockNoCtx(c, "Close")

\* the body of Close returns: the error of db.db.Close(), or nil with db.db
\* nil, and the deferred unlock runs
CloseReturn(c) ==
  /\ dbpc[c] = "Close"
  /\ \E failed \in BOOLEAN :
       IF database.db = "open" /\ failed
         THEN /\ database' = unlocked(database)
              /\ dbres' = [dbres EXCEPT ![c] = "close error"]
         ELSE /\ database' = unlocked([database EXCEPT !.db = "nil"])
              /\ dbres' = [dbres EXCEPT ![c] = "nil"]
  /\ holders' = holders \ {c}
  /\ dbpc' = [dbpc EXCEPT ![c] = "idle"]
  /\ UNCHANGED <<otherThanDb, dbctx>>

DbNext ==
  \/ \E c \in Callers : CallLock(c)
  \/ \E c \in Callers : CancelContext(c)
  \/ \E c \in Callers : lock(c)
  \/ \E c \in Callers : unlock(c)
  \/ \E c \in Callers : Open(c)
  \/ \E c \in Callers : OpenReturn(c)
  \/ \E c \in Callers : Close(c)
  \/ \E c \in Callers : CloseReturn(c)

DbSpec == Init /\ [][DbNext]_vars

\* ---------------------------------------------- the Manager, applied
\* RefreshStreamManager, first half: the existing stream manager is shut down
RefreshShutdown ==
  /\ mgr.pc = "idle"
  /\ Len(mgr.streamManagers) < MaxStreamManagers
  /\ mgr' = [ShutdownStreamManager(mgr) EXCEPT !.pc = "RefreshStreamManager"]
  /\ UNCHANGED <<otherThanMgr, database, mig>>

\* RefreshStreamManager whose new stream manager gets a lock manager of its own
RefreshConstructOwnLocks ==
  /\ mgr.pc = "RefreshStreamManager"
  /\ mgr' = [NewStreamManager([mgr EXCEPT !.lockManagers = Append(@, {})],
                              Len(mgr.lockManagers) + 1)
               EXCEPT !.pc = "idle"]
  /\ UNCHANGED <<otherThanMgr, database, mig>>

\* RefreshStreamManager, second half:
\* s.StreamManager = ffmpeg.NewStreamManager(..., s.ReadLockManager)
RefreshConstruct ==
  /\ mgr.pc = "RefreshStreamManager"
  /\ mgr' = [NewStreamManager(mgr, mgr.ReadLockManager) EXCEPT !.pc = "idle"]
  /\ UNCHANGED <<otherThanMgr, database, mig>>

\* a stream served by the current stream manager takes the read lock of a
\* path from the lock manager the stream manager was given
StreamReadLock(p) ==
  /\ mgr.pc = "idle"
  /\ mgr.StreamManager # 0
  /\ LET lm == mgr.streamManagers[mgr.StreamManager].lockManager
     IN  /\ p \notin mgr.lockManagers[lm]
         /\ mgr' = [mgr EXCEPT !.lockManagers[lm] = @ \cup {p}]
  /\ UNCHANGED <<otherThanMgr, database, mig>>

\* the read lock of a path is given back to the lock manager it was taken from
StreamUnlock(p) ==
  /\ mgr.pc = "idle"
  /\ \E lm \in 1..Len(mgr.lockManagers) :
       /\ p \in mgr.lockManagers[lm]
       /\ mgr' = [mgr EXCEPT !.lockManagers[lm] = @ \ {p}]
  /\ UNCHANGED <<otherThanMgr, database, mig>>

\* Manager.Shutdown: the stream manager is shut down, the database closed
\* (under its write lock, which is given back), and the process exits
ManagerShutdown ==
  /\ mgr.pc = "idle"
  /\ database.lockChan < LockChanCap
  /\ \E failed \in BOOLEAN :
       database' = IF database.db = "open" /\ failed
                     THEN database ELSE [database EXCEPT !.db = "nil"]
  /\ mgr' = [ShutdownStreamManager(mgr) EXCEPT !.pc = "exited"]
  /\ UNCHANGED <<otherThanMgr, mig>>

\* Database.Open(dbPath) on a database file that holds schema version v, not
\* a new one: db.schemaVersion is set; the connection is opened only if no
\* migration is needed; the write lock is taken and given back
DatabaseOpen(v) ==
  /\ mgr.pc = "idle" /\ mig.pc = "idle"
  /\ database.lockChan < LockChanCap
  /\ mig' = [mig EXCEPT !.file = v, !.schemaVersion = v]
  /\ \E ok \in BOOLEAN :
       database' = IF v = appSchemaVersion /\ database.db = "nil" /\ ok
                     THEN [database EXCEPT !.db = "open"] ELSE database
  /\ UNCHANGED <<otherThanMgr, mgr>>

\* Migrate that goes on to the migrations when the backup failed
MigrateBackupIgnoresError ==
  /\ mgr.pc = "idle" /\ mig.pc = "idle"
  /\ \E backupPath \in {"", "backup.sqlite"}, ok \in BOOLEAN :
       mig' = [mig EXCEPT !.BackupPath = backupPath, !.log = <<>>,
                          !.restore = "none", !.removed = FALSE, !.res = "",
                          !.backup = IF ok THEN <<mig.file>> ELSE <<>>,
                          !.pc = "getMigrate"]
  /\ UNCHANGED <<otherThanMgr, mgr, database>>

\* Manager.Migrate up to database.Backup(backupPath): a failed backup is
\* returned as the error, a backup made holds the database as it is
MigrateBackup ==
  /\ mgr.pc = "idle" /\ mig.pc = "idle"
  /\ \E backupPath \in {"", "backup.sqlite"}, ok \in BOOLEAN :
       mig' = [mig EXCEPT !.BackupPath = backupPath, !.log = <<>>,
                          !.restore = "none", !.removed = FALSE,
                          !.backup = IF ok THEN <<mig.file>> ELSE <<>>,
                          !.res = IF ok THEN "" ELSE "error backing up database",
                          !.pc = IF ok THEN "getMigrate" ELSE "idle"]
  /\ UNCHANGED <<otherThanMgr, mgr, database>>

\* RunMigrations: m, err := db.getMigrate(); databaseSchemaVersion from
\* m.Version(); stepNumber := appSchemaVersion - databaseSchemaVersion
getMigrate ==
  /\ mgr.pc # "exited" /\ mig.pc = "getMigrate"
  /\ \E ok \in BOOLEAN :
       mig' = IF ~ok THEN [mig EXCEPT !.pc = "failed"]
              ELSE LET n == Uint(appSchemaVersion - mig.file)
                   IN  [mig EXCEPT !.databaseSchemaVersion = mig.file,
                                   !.stepNumber = n,
                                   !.i = 1,
                                   !.pc = IF n # 0 THEN "pre" ELSE "reopen"]
  /\ UNCHANGED <<otherThanMgr, mgr, database>>

\* db.runCustomMigrations(ctx, preMigrations[newVersion])
PreMigrations ==
  /\ mgr.pc # "exited" /\ mig.pc = "pre"
  /\ \E ok \in BOOLEAN :
       mig' = IF ~ok THEN RunMigrationsFailed(mig, "pre")
              ELSE [mig EXCEPT !.log = Append(@, <<"pre", NewVersion(mig), "ok">>),
                               !.pc = "Steps"]
  /\ UNCHANGED <<otherThanMgr, mgr, database>>

\* err = m.Steps(1): the next migration is applied if the program has one
\* and it does not fail
Steps ==
  /\ mgr.pc # "exited" /\ mig.pc = "Steps"
  /\ \E ok \in BOOLEAN :
       mig' = IF ~ok \/ ~HasMigration(mig.file + 1)
                THEN RunMigrationsFailed(mig, "step")
                ELSE [mig EXCEPT !.log = Append(@, <<"step", NewVersion(mig), "ok">>),
                                 !.file = @ + 1,
                                 !.pc = "post"]
  /\ UNCHANGED <<otherThanMgr, mgr, database>>

\* db.runCustomMigrations(ctx, postMigrations[newVersion]); i++
PostMigrations ==
  /\ mgr.pc # "exited" /\ mig.pc = "post"
  /\ \E ok \in BOOLEAN :
       mig' = IF ~ok THEN RunMigrationsFailed(mig, "post")
              ELSE [mig EXCEPT !.log = Append(@, <<"post", NewVersion(mig), "ok">>),
                               !.i = Uint(@ + 1),
                               !.pc = IF Uint(mig.i + 1) <= mig.stepNumber
                                        THEN "pre" ELSE "reopen"]
  /\ UNCHANGED <<otherThanMgr, mgr, database>>

\* the end of RunMigrations: db.schemaVersion from m.Version(), db.db opened
\* again (an error of which is returned), Optimise (its error only logged)
Reopen ==
  /\ mgr.pc # "exited" /\ mig.pc = "reopen"
  /\ \E ok \in BOOLEAN :
       /\ mig' = [mig EXCEPT !.schemaVersion = mig.file,
                             !.pc = IF ok THEN "migrated" ELSE "failed"]
       /\ database' = IF ok THEN [database EXCEPT !.db = "open"] ELSE database
  /\ UNCHANGED <<otherThanMgr, mgr>>

\* Migrate after RunMigrations returned an error: RestoreFromBackup renames
\* the backup to the database path; an error is returned either way
MigrateRestore ==
  /\ mgr.pc # "exited" /\ mig.pc = "failed"
  /\ \E ok \in BOOLEAN :
       mig' = IF ok
                THEN [mig EXCEPT !.file = mig.backup[1], !.backup = <<>>,
                                 !.restore = "ok", !.pc = "idle",
                                 !.res = "error performing migration, restored"]
                ELSE [mig EXCEPT !.restore = "failed", !.pc = "idle",
                                 !.res = "unable to restore database from backup"]
  /\ UNCHANGED <<otherThanMgr, mgr, database>>

\* Migrate after RunMigrations returned nil: the backup made at a path of the
\* program's choice is removed (an error of os.Remove is only logged)
MigrateReturn ==
  /\ mgr.pc # "exited" /\ mig.pc = "migrated"
  /\ \E ok \in BOOLEAN :
       mig' = IF mig.BackupPath = "" /\ ok
                THEN [mig EXCEPT !.backup = <<>>, !.removed = TRUE,
                                 !.pc = "idle", !.res = "nil"]
                ELSE [mig EXCEPT !.pc = "idle", !.res = "nil"]
  /\ UNCHANGED <<otherThanMgr, mgr, database>>

MgrNext ==
  \/ RefreshShutdown
  \/ RefreshConstruct
  \/ \E p \in Paths : StreamReadLock(p)
  \/ \E p \in Paths : StreamUnlock(p)
  \/ ManagerShutdown
  \/ \E v \in FileVersions : DatabaseOpen(v)
  \/ MigrateBackup
  \/ getMigrate
  \/ PreMigrations
  \/ Steps
  \/ PostMigrations
  \/ Reopen
  \/ MigrateRestore
  \/ MigrateReturn

MgrSpec == Init /\ [][MgrNext]_vars

\* ------------------------------------------------------------------ claims
\* the request holds, or has held, a read lock
Acquired(r) == r \in readLocks[path[r]] \/ released[r] > 0

\* the lock of the request is gone from the table after one release
ReleasedOnce(r) == released[r] = 1 /\ r \notin readLocks[path[r]]

\* no encoder process runs for the request, and none can be started any more
Terminated(r) ==
  /\ proc[r] # "running"
  /\ pc[r] \notin {"idle", "ReadLock", "Command", "Start"}

\* C1: once the request context is cancelled after the read lock was acquired,
\* the encoder process, if one was started, ends up terminated (and none is
\* started later) and the read lock ends up released exactly once; the lock is
\* never released twice and a terminated process does not run again.
C1_CancelTerminatesAndReleasesOnce ==
  /\ [](released[Stream] <= 1)
  /\ [][Terminated(Stream) => Terminated(Stream)']_vars
  /\ [](reqCtx[Stream] = "done" /\ Acquired(Stream)
          => <>(Terminated(Stream) /\ ReleasedOnce(Stream)))

\* C1 witness: the context was cancelled in the window between cmd.Start() and
\* ctx.AttachCommand(cmd), and the process was terminated and the lock released
C1_Witness ==
  /\ pc[Stream] = "AttachCommand"
  /\ reqCtx[Stream] = "done"
  /\ proc[Stream] = "killed"
  /\ ReleasedOnce(Stream)

\* C2: every read lock ServeTranscode acquired is released exactly once after
\* the handler has returned, whatever the exit path (end of stream, the 400
\* response, cancellation); it is never released twice and, once the handler
\* has returned and the lock is released, it is never held again.
C2_LockReleasedOnEveryExit ==
  /\ [](pc[Stream] = "returned" /\ Acquired(Stream) => <>ReleasedOnce(Stream))
  /\ [][released[Stream]' <= 1]_vars
  /\ [][pc[Stream] = "returned" /\ ReleasedOnce(Stream)
          => ReleasedOnce(Stream)']_vars

\* C2 witness: the handler returned through the 400 path and the lock it had
\* acquired is released
C2_Witness ==
  /\ pc[Stream] = "returned"
  /\ err[Stream] = "start"
  /\ ReleasedOnce(Stream)

\* C3: read locks on one path do not wait for one another (a request waiting
\* in ReadLock with a live context is admitted whenever no writer holds the
\* path, whoever else holds a read lock on it), and a writer holds a path only
\* while no read lock on it is held: with two streams of a path the operation
\* is active only after both have released.
C3_ReadersShareWriterWaits ==
  /\ \A p \in Paths : writer[p] = "active" => readLocks[p] = {}
  /\ \A r \in Reqs :
       pc[r] = "ReadLock" /\ reqCtx[r] = "live" /\ writer[path[r]] # "active"
         => ENABLED ReadLock(r)

\* C3 witness: two streams hold the read lock of the same path at once while a
\* file-modification operation waits for that path
C3_Witness ==
  \E p \in Paths :
    /\ Cardinality(readLocks[p]) >= 2
    /\ writer[p] = "waiting"
    /\ \A r \in readLocks[p] : proc[r] = "running"

\* the stderr pipe of the running encoder is full: its next write blocks
StderrFull(r) == proc[r] = "running" /\ errPipe[r] = ErrPipeCap

\* C4: a started encoder has its drain goroutine launched by the next
\* statements of getTranscodeStream, the drain goroutine can take what the
\* stderr pipe holds whatever the copy loop is doing, and a full stderr pipe
\* does not stay full: the encoder is not blocked for ever on stderr, even if
\* the copy loop never takes another step.
C4_StderrAlwaysDrained ==
  /\ [](proc[Stream] # "none"
          => dpc[Stream] # "none" \/ pc[Stream] = "AttachCommand")
  /\ [](dpc[Stream] = "ReadAll" /\ errPipe[Stream] > 0 => ENABLED ReadAll(Stream))
  /\ [](StderrFull(Stream) => <>~StderrFull(Stream))

\* C4 witness: the copy loop holds bytes it has not yet written to its peer,
\* the encoder runs, and the drain goroutine has emptied a stderr pipe
C4_Witness ==
  /\ pc[Stream] = "CopyWrite"
  /\ proc[Stream] = "running"
  /\ errStr[Stream] = ErrPipeCap
  /\ errPipe[Stream] = 0
  /\ nErr[Stream] < MaxErr

\* the errors getTranscodeStream returns: a pipe or the start of the process
StartErrors == {"stdout pipe", "stderr pipe", "start", "context canceled"}

\* the status codes written for the request, in order
StatusCodes(r) == [i \in 1..Len(sent[r].status) |-> sent[r].status[i].code]

\* C5: when a pipe or the start of the encoder fails, ServeTranscode writes
\* status 400 and then the text of that error as the body (nothing reaches a
\* peer that is gone: the failed write is logged), and at no time a status 200
\* or a stream byte.
C5_StartFailureIs400 ==
  err[Stream] \in StartErrors =>
    /\ sent[Stream].body = <<>>
    /\ \A i \in 1..Len(sent[Stream].status) : StatusCodes(Stream)[i] # StatusOK
    /\ pc[Stream] = "returned" =>
         /\ StatusCodes(Stream) = <<StatusBadRequest>>
         /\ \/ sent[Stream].text = <<err[Stream]>>
            \/ /\ sent[Stream].text = <<>>
               /\ client[Stream] = "gone"
               /\ "error writing response" \in logs[Stream]

\* C5 witness: the start of the process failed and the 400 with the error text
\* was written
C5_Witness ==
  /\ pc[Stream] = "returned"
  /\ err[Stream] = "start"
  /\ StatusCodes(Stream) = <<StatusBadRequest>>
  /\ sent[Stream].text = <<"start">>

\* C6: a request writes at most one status, and exactly one, 400 or 200, by
\* the time its handler returns; an error text is written only with a start
\* failure and status 400; once 200 is written, no step writes another status
\* or an error text.
C6_OneStatusErrorsOnlyOnStartFailure ==
  /\ [](Len(sent[Stream].status) <= 1)
  /\ [](pc[Stream] = "returned" =>
          StatusCodes(Stream) \in {<<StatusOK>>, <<StatusBadRequest>>})
  /\ [](sent[Stream].text # <<>> =>
          err[Stream] \in StartErrors /\ StatusCodes(Stream) = <<StatusBadRequest>>)
  /\ [][StatusCodes(Stream) = <<StatusOK>> =>
          StatusCodes(Stream)' = <<StatusOK>> /\ sent[Stream]'.text = <<>>]_vars

\* C6 witness: status 200 was written, then the copy failed on a write error
\* that is logged, and the handler has returned
C6_Witness ==
  /\ pc[Stream] = "returned"
  /\ StatusCodes(Stream) = <<StatusOK>>
  /\ err[Stream] = "connection reset"
  /\ "error serving transcoded video file" \in logs[Stream]

\* the headers of a stream response
StreamHeaders(r) == [cache |-> "no-store", ctype |-> mime[r]]

\* C7: once the handler of a started encoder has written its status, the
\* response has exactly the status 200, sent with Cache-Control: no-store and
\* the MIME type of the requested format as Content-Type; stream bytes are in
\* the body only after that status and these headers.
C7_StreamHeadersBeforeStatus ==
  /\ proc[Stream] # "none" /\ pc[Stream] \in {"CopyRead", "CopyWrite", "CopyDone", "returned"}
       => sent[Stream].status = <<[code |-> StatusOK, header |-> StreamHeaders(Stream)]>>
  /\ sent[Stream].body # <<>>
       => sent[Stream].status = <<[code |-> StatusOK, header |-> StreamHeaders(Stream)]>>

\* C7 witness: a WebM stream has sent its headers and a first byte
C7_Witness ==
  /\ mime[Stream] = MimeWebmVideo
  /\ Len(sent[Stream].body) = 1
  /\ sent[Stream].status[1].header.ctype = MimeWebmVideo

\* what the encoder has written to stdout so far
Produced(r) == [i \in 1..nOut[r] |-> i]

IsPrefix(s, t) == Len(s) <= Len(t) /\ \A i \in 1..Len(s) : s[i] = t[i]

\* C8: the response body is at every moment a prefix of what the encoder has
\* written to stdout.
C8_BodyIsPrefixOfStdout == IsPrefix(sent[Stream].body, Produced(Stream))

\* C8 witness: every byte of the encoder has reached the body, over more than
\* one write
C8_Witness ==
  /\ nOut[Stream] = MaxOut
  /\ Len(sent[Stream].body) = MaxOut
  /\ MaxOut > OutPipeCap

\* the encoder process has ended: it exited or was killed
Ended(r) == proc[r] \in {"exit0", "exit1", "killed"}

\* C9 as stated: once the context is cancelled, the handler has returned only
\* if the drain goroutine is done and the process was waited on.
C9_ReturnsOnlyAfterDrainAndWait ==
  pc[Stream] = "returned" /\ reqCtx[Stream] = "done" /\ proc[Stream] # "none"
    => dpc[Stream] = "done" /\ waited[Stream] = 1

\* C9 amended: the handler does not wait for the drain goroutine, so it may
\* return while the goroutine runs and the process is not yet waited on; once
\* the handler of a started encoder has returned, the drain goroutine ends and
\* the process is waited on, eventually.
C9_DrainAndWaitCompleteAfterReturn ==
  [](pc[Stream] = "returned" /\ proc[Stream] # "none"
       => <>(dpc[Stream] = "done" /\ waited[Stream] = 1))

\* C9 witness: after a cancellation the handler has returned and, later, the
\* drain goroutine has ended with the killed process waited on
C9_Witness ==
  /\ pc[Stream] = "returned"
  /\ reqCtx[Stream] = "done"
  /\ proc[Stream] = "killed"
  /\ dpc[Stream] = "done"
  /\ waited[Stream] = 1

\* C10: a started encoder process is waited on at most once and only after it
\* has ended, and once it has ended (its stderr closes) the drain goroutine
\* reaches cmd.Wait(): the ended process ends up waited on exactly once.
C10_EndedProcessWaitedOnce ==
  /\ [](waited[Stream] <= 1)
  /\ [][waited[Stream]' # waited[Stream]
          => Ended(Stream) /\ waited[Stream]' = waited[Stream] + 1]_vars
  /\ [](Ended(Stream) => <>(waited[Stream] = 1))

\* C10 witness: the encoder exited by itself with status 0 and was waited on
C10_Witness ==
  /\ proc[Stream] = "exit0"
  /\ waited[Stream] = 1
  /\ dpc[Stream] = "done"

\* C11: an encoder that was terminated on purpose (its context was done: the
\* peer left, the request was cancelled or the lock revoked) does not turn the
\* request into a failure: the response carries no status but the 200 already
\* written and no error text, ServeTranscode is not on its error path and holds
\* no start error; once the process is killed no step writes a status or an
\* error text, and the handler that returns has flushed a 200 response.
C11_KilledIsNoFailure ==
  /\ [](proc[Stream] = "killed" =>
          /\ \A i \in 1..Len(sent[Stream].status) : StatusCodes(Stream)[i] = StatusOK
          /\ sent[Stream].text = <<>>
          /\ pc[Stream] # "error"
          /\ err[Stream] \notin StartErrors \cup {"ExitError"}
          /\ pc[Stream] = "returned" =>
               StatusCodes(Stream) = <<StatusOK>> /\ sent[Stream].flushes = 1)
  /\ [][proc[Stream] = "killed" /\ sent[Stream].status # <<>>
          => /\ sent[Stream]'.status = sent[Stream].status
             /\ sent[Stream]'.text = <<>>]_vars

\* C11 witness: the lock was revoked under a connected peer with a live
\* request, the encoder was killed and waited on, and the handler has returned
C11_Witness ==
  /\ pc[Stream] = "returned"
  /\ proc[Stream] = "killed"
  /\ reqCtx[Stream] = "live"
  /\ client[Stream] = "connected"
  /\ waited[Stream] = 1
  /\ StatusCodes(Stream) = <<StatusOK>>

\* C12 as stated: after a deliberate termination the drain goroutine has logged
\* nothing, whatever the encoder had written to stderr.
C12_KilledNeverLogged ==
  proc[Stream] = "killed" /\ dpc[Stream] = "done"
    => "ffmpeg error when running command" \notin logs[Stream]

\* C12 amended: after a deliberate termination the drain goroutine logs nothing
\* when the encoder had written nothing to stderr and Wait returned the exit
\* error of the kill (it is ignored); what the encoder did write to stderr
\* before it was killed is logged as an error, and so is a failure of Wait
\* itself.
C12_KilledLoggedOnlyWithStderr ==
  proc[Stream] = "killed" /\ dpc[Stream] = "done"
    => /\ errStr[Stream] = nErr[Stream]
       /\ waitErr[Stream] \in {"ExitError", "wait failed"}
       /\ "ffmpeg error when running command" \in logs[Stream]
            <=> errStr[Stream] > 0 \/ waitErr[Stream] = "wait failed"

\* C12 witness: a killed encoder that had written nothing to stderr was waited
\* on and nothing was logged
C12_Witness ==
  /\ proc[Stream] = "killed"
  /\ dpc[Stream] = "done"
  /\ waitErr[Stream] = "ExitError"
  /\ errStr[Stream] = 0
  /\ nOut[Stream] > 0
  /\ logs[Stream] = {}

\* C13: when the copy ends on a write that failed with EPIPE, the error is not
\* logged, the response keeps the one status 200 with the stream headers and
\* gets no error text, and the handler goes on to its Flush and returns.
C13_BrokenPipeIsSilent ==
  /\ [](err[Stream] = "EPIPE" =>
          /\ pc[Stream] \in {"CopyDone", "returned"}
          /\ "error serving transcoded video file" \notin logs[Stream]
          /\ sent[Stream].status
               = <<[code |-> StatusOK, header |-> StreamHeaders(Stream)]>>
          /\ sent[Stream].text = <<>>
          /\ pc[Stream] = "returned" => sent[Stream].flushes = 1)
  /\ [][err[Stream] = "EPIPE" /\ pc[Stream] = "CopyDone" /\ pc[Stream]' # "CopyDone"
          => pc[Stream]' = "returned" /\ sent[Stream]'.body = sent[Stream].body]_vars

\* C13 witness: the peer left after the first byte, the next write failed with
\* EPIPE and the handler has returned
C13_Witness ==
  /\ pc[Stream] = "returned"
  /\ err[Stream] = "EPIPE"
  /\ client[Stream] = "gone"
  /\ Len(sent[Stream].body) = 1
  /\ logs[Stream] = {}

\* C14: every lock context has at most one command attached during its whole
\* life, and that command is the started encoder of the request the context
\* was returned to: a request calls ReadLock once (no second lock context),
\* AttachCommand is called on a context only by its own request, once, between
\* cmd.Start() and the handler, and a step of one request attaches nothing to
\* the context of another.
C14_OneCommandPerLockContext ==
  /\ [](\A r \in Reqs : attached[r] <= 1)
  /\ [](\A r \in Reqs : attached[r] = 1 => proc[r] # "none" /\ lockCtx[r] # "none")
  /\ [][\A r \in Reqs :
          attached[r]' # attached[r]
            => /\ pc[r] = "AttachCommand" /\ pc[r]' = "handler"
               /\ attached[r]' = attached[r] + 1
               /\ \A q \in Reqs \ {r} : attached[q]' = attached[q]]_vars
  /\ [][\A r \in Reqs :
          lockCtx[r] # "none" => pc[r]' # "ReadLock" /\ lockCtx[r]' # "none"]_vars

\* C14 witness: every request streams the same file at once, each with its own
\* running encoder attached to its own live lock context
C14_Witness ==
  /\ NumReqs > 1
  /\ \A r \in Reqs :
       /\ attached[r] = 1
       /\ proc[r] = "running"
       /\ lockCtx[r] = "live"
       /\ path[r] = path[Stream]

\* how far a request has come: idle, lock acquisition, process start, headers,
\* copy, end of the copy or error response, returned
Rank(p) ==
  CASE p = "idle" -> 0
    [] p = "ReadLock" -> 1
    [] p \in {"Command", "Start", "AttachCommand"} -> 2
    [] p = "handler" -> 3
    [] p \in {"CopyRead", "CopyWrite"} -> 4
    [] p \in {"CopyDone", "error"} -> 5
    [] p = "returned" -> 6

\* the ways a request ends: the 400 of a failed start; a stream copied to the
\* end of an encoder that ended by itself; a stream that was cut, because the
\* encoder was killed or the copy ended on an error
StartFailed(r) ==
  pc[r] = "returned" /\ StatusCodes(r) = <<StatusBadRequest>> /\ proc[r] = "none"

Completed(r) ==
  /\ pc[r] = "returned" /\ StatusCodes(r) = <<StatusOK>>
  /\ err[r] = "" /\ proc[r] \in {"exit0", "exit1"}

Cancelled(r) ==
  /\ pc[r] = "returned" /\ StatusCodes(r) = <<StatusOK>>
  /\ proc[r] # "none"
  /\ \/ err[r] \in {"EPIPE", "connection reset", "file already closed"}
     \/ err[r] = "" /\ proc[r] = "killed"

Outcomes(r) ==
  {o \in {"StartFailed", "Completed", "Cancelled"} :
     \/ o = "StartFailed" /\ StartFailed(r)
     \/ o = "Completed" /\ Completed(r)
     \/ o = "Cancelled" /\ Cancelled(r)}

\* C15: a request only moves forward through lock acquisition, process start,
\* headers, copy and return; its process starts only while its read lock is
\* held; the status 200 is written only after the process was started and
\* stream bytes only after that status; a request that has returned is in
\* exactly one of StartFailed, Completed and Cancelled, and stays in it.
C15_StepsInOrderOneTerminalState ==
  /\ [][Rank(pc[Stream]') >= Rank(pc[Stream])]_vars
  /\ [][proc[Stream] = "none" /\ proc[Stream]' # "none"
          => /\ Stream \in readLocks[path[Stream]]
             /\ lockCtx[Stream] = "live"
             /\ sent[Stream] = NoResponse]_vars
  /\ [](proc[Stream] # "none" => Acquired(Stream))
  /\ [](sent[Stream].status # <<>> /\ sent[Stream].status[1].code = StatusOK
          => proc[Stream] # "none")
  /\ [](sent[Stream].body # <<>>
          => proc[Stream] # "none" /\ StatusCodes(Stream) = <<StatusOK>>)
  /\ [](pc[Stream] = "returned" <=> Cardinality(Outcomes(Stream)) = 1)
  /\ [](Cardinality(Outcomes(Stream)) <= 1)
  /\ [][pc[Stream] = "returned"
          => pc[Stream]' = "returned" /\ Outcomes(Stream)' = Outcomes(Stream)]_vars

\* C15 witness: a request went through every step and completed: lock, process,
\* headers, all the bytes of the encoder copied, end of file, return
C15_Witness ==
  /\ Completed(Stream)
  /\ Acquired(Stream)
  /\ proc[Stream] = "exit0"
  /\ Len(sent[Stream].body) = MaxOut
  /\ sent[Stream].flushes = 1

\* ReadLock has returned to the request without granting it the lock
LockFailed(r) == pc[r] \notin {"idle", "ReadLock"} /\ ~Acquired(r)

\* C16: a ReadLock that returns after the request context was cancelled grants
\* no lock and returns a context that is done; a request whose acquisition
\* failed holds no lock on any path, starts no encoder and no drain goroutine,
\* writes no status 200 and no stream byte, and returns with the 400 of a
\* start failure.
C16_CancelBeforeLockStartsNothing ==
  /\ [][pc[Stream] = "ReadLock" /\ reqCtx[Stream] = "done" /\ pc[Stream]' # "ReadLock"
          => LockFailed(Stream)' /\ lockCtx[Stream]' = "done"]_vars
  /\ [](LockFailed(Stream) =>
          /\ reqCtx[Stream] = "done" /\ lockCtx[Stream] = "done"
          /\ \A p \in Paths : Stream \notin readLocks[p]
          /\ proc[Stream] = "none" /\ dpc[Stream] = "none" /\ attached[Stream] = 0
          /\ sent[Stream].body = <<>>
          /\ \A i \in 1..Len(sent[Stream].status) : StatusCodes(Stream)[i] # StatusOK
          /\ pc[Stream] \in {"Command", "Start", "error", "returned"}
          /\ pc[Stream] = "returned" =>
               StatusCodes(Stream) = <<StatusBadRequest>> /\ err[Stream] \in StartErrors)

\* C16 witness: the request waited in ReadLock for a file-modification
\* operation that holds the path, was cancelled there, and has returned with
\* the 400 of a command that was not started
C16_Witness ==
  /\ pc[Stream] = "returned"
  /\ LockFailed(Stream)
  /\ writer[path[Stream]] = "active"
  /\ err[Stream] = "context canceled"
  /\ StatusCodes(Stream) = <<StatusBadRequest>>

\* argument x occurs in a; x is directly followed by y in a; how often x occurs
Has(a, x) == \E i \in 1..Len(a) : a[i] = x

HasPair(a, x, y) == \E i \in 1..(Len(a) - 1) : a[i] = x /\ a[i + 1] = y

Count(a, x) == Cardinality({i \in 1..Len(a) : a[i] = x})

\* the places of a where the fragment f starts
Occurrences(a, f) ==
  {i \in 1..(Len(a) - Len(f) + 1) : SubSeq(a, i, i + Len(f) - 1) = f}

\* C17: FileGetCodec returns a codec for each of the three containers, whatever
\* the setting and the probe say: for MP4 the probed MP4 hardware codec if
\* there is one and hardware acceleration is enabled, else software H.264; for
\* WebM the probed WebM hardware codec under the same two conditions, else
\* VP9; for Matroska stream-copy in every case.
C17_FileGetCodecPolicy ==
  call.fn = "FileGetCodec" =>
    LET hw == sm.TranscodeHardwareAcceleration
        mp4 == sm.hwCodecMP4Compatible
        webm == sm.hwCodecWEBMCompatible
    IN  /\ codec \in VideoCodecs
        /\ call.mimetype = MimeMp4Video /\ hw /\ mp4 # Nil => codec = mp4
        /\ call.mimetype = MimeMp4Video /\ ~(hw /\ mp4 # Nil)
             => codec = VideoCodecLibX264
        /\ call.mimetype = MimeWebmVideo /\ hw /\ webm # Nil => codec = webm
        /\ call.mimetype = MimeWebmVideo /\ ~(hw /\ webm # Nil)
             => codec = VideoCodecVP9
        /\ call.mimetype = MimeMkvVideo => codec = VideoCodecCopy

\* C17 witness: MP4 with a probed hardware codec and hardware acceleration
\* disabled gives software H.264
C17_Witness ==
  /\ call.fn = "FileGetCodec"
  /\ call.mimetype = MimeMp4Video
  /\ sm.hwCodecMP4Compatible = VideoCodecN264
  /\ ~sm.TranscodeHardwareAcceleration
  /\ codec = VideoCodecLibX264

\* C18: for each format, codec and filter, the arguments of a video-only stream
\* have the skip-audio flag and no audio channel, codec, bitrate or vbr
\* argument; those of a stream with audio have "-ac 2" and no skip-audio flag,
\* and for Matroska also the libopus audio codec, "-b:a 96k" and "-vbr on".
C18_AudioArgsFollowVideoOnly ==
  call.fn = "Args" =>
    /\ call.videoOnly =>
         /\ Count(args, "-an") = 1
         /\ \A x \in {"-ac", "-c:a", "-b:a", "-vbr"} : ~Has(args, x)
    /\ ~call.videoOnly =>
         /\ HasPair(args, "-ac", "2")
         /\ ~Has(args, "-an")
         /\ call.mimetype = MimeMkvVideo =>
              /\ HasPair(args, "-c:a", AudioCodecLibOpus)
              /\ HasPair(args, "-b:a", "96k")
              /\ HasPair(args, "-vbr", "on")

\* C18 witness: Matroska arguments of a video-only stream
C18_Witness ==
  /\ call.fn = "Args"
  /\ call.mimetype = MimeMkvVideo
  /\ call.videoOnly
  /\ call.codec = VideoCodecCopy
  /\ args = <<"-c:v", VideoCodecCopy, "-an", "-f", FormatMatroska>>

\* C19: for each format, codec, filter and value of videoOnly, the arguments
\* of the format begin with CodecInit(codec), that fragment occurs nowhere
\* else in them, and they select a video codec once.
C19_OneCodecInitAtStart ==
  call.fn = "Args" =>
    LET ci == CodecInit(call.codec)
    IN  /\ Len(args) > Len(ci)
        /\ SubSeq(args, 1, Len(ci)) = ci
        /\ Occurrences(args, ci) = {1}
        /\ Count(args, "-c:v") = 1

\* C19 witness: WebM arguments with a scale filter, for a hardware codec whose
\* initialization has arguments of its own
C19_Witness ==
  /\ call.fn = "Args"
  /\ call.mimetype = MimeWebmVideo
  /\ call.codec = VideoCodecVVP9
  /\ call.videoFilter # ""
  /\ SubSeq(args, 1, 4) = <<"-c:v", VideoCodecVVP9, "-qp", "20">>
  /\ HasPair(args, "-vf", call.videoFilter)

\* the audio arguments of a
AudioArgs(a) ==
  {i \in 1..Len(a) : a[i] \in {"-an", "-ac", "-c:a", "-b:a", "-vbr"}}

\* C20: the command of makeStreamArgs is video-only (skip-audio flag) exactly
\* when the audio codec of the file is MissingUnsupported; for a Matroska
\* request of such a file the one video codec selected is stream-copy, and the
\* command has no audio codec, bitrate or channel argument of its own: the
\* only ones are those of the configured extra arguments, passed as they are.
C20_MissingAudioIsVideoOnly ==
  call.fn = "makeStreamArgs" =>
    LET extra == sm.LiveTranscodeInputArgs \o sm.LiveTranscodeOutputArgs
    IN  /\ Has(args, "-an") <=> options.AudioCodec = MissingUnsupported
        /\ options.AudioCodec = MissingUnsupported =>
             Cardinality(AudioArgs(args)) = 1 + Cardinality(AudioArgs(extra))
        /\ options.StreamType = MimeMkvVideo
             /\ options.AudioCodec = MissingUnsupported =>
             /\ HasPair(args, "-c:v", VideoCodecCopy)
             /\ Count(args, "-c:v") = 1
             /\ \A x \in {"-c:a", "-b:a", "-vbr", "-ac"} :
                  Count(args, x) = Count(extra, x)

\* C20 witness: a Matroska request for a file without usable audio, with
\* hardware acceleration enabled and hardware codecs probed, no extra arguments
C20_Witness ==
  /\ call.fn = "makeStreamArgs"
  /\ options.StreamType = MimeMkvVideo
  /\ options.AudioCodec = MissingUnsupported
  /\ sm.TranscodeHardwareAcceleration
  /\ sm.hwCodecMP4Compatible # Nil
  /\ sm.LiveTranscodeInputArgs = <<>> /\ sm.LiveTranscodeOutputArgs = <<>>
  /\ args = <<"-hide_banner", "-v", LogLevelError, "-ss", "30", "-i", "video.avi",
              "-c:v", VideoCodecCopy, "-an", "-f", FormatMatroska, "pipe:">>

\* C21: argument generation is repeatable and writes to nothing it shares: a
\* second makeStreamArgs call with the same options and stream manager, made
\* on the memory the first one left, returns the same list in an array of its
\* own; neither call writes to the arrays of the configuration's extra input
\* and output arguments (their spare capacity included) or to the array of
\* the other call's result; CodecInit and the formats' Args return the list
\* their parameters alone determine.
C21_ArgsRepeatableNoSharedWrites ==
  /\ call.fn = "makeStreamArgs" =>
       LET spare == Len(mem.heap[1]) - Len(sm.LiveTranscodeInputArgs)
           again == makeStreamArgsOnHeap(options, sm, mem.heap)
       IN  /\ Elems(mem.heap, mem.s) = args
           /\ mem.s.arr \notin {ExtraInputArgs(sm).arr, ExtraOutputArgs(sm).arr}
           /\ mem.heap[1] = sm.LiveTranscodeInputArgs \o [i \in 1..spare |-> ""]
           /\ mem.heap[2] = sm.LiveTranscodeOutputArgs \o [i \in 1..spare |-> ""]
           /\ Elems(again.heap, again.s) = args
           /\ again.s.arr \notin 1..Len(mem.heap)
           /\ \A i \in 1..Len(mem.heap) : again.heap[i] = mem.heap[i]
  /\ call.fn = "CodecInit" => args = CodecInit(call.codec)
  /\ call.fn = "Args" =>
       args = StreamTypeArgs(call.mimetype, call.codec, call.videoFilter,
                             call.videoOnly)

\* C21 witness: a call whose configuration has extra input and output
\* arguments in arrays with spare capacity, which is still unused afterwards
C21_Witness ==
  /\ call.fn = "makeStreamArgs"
  /\ sm.LiveTranscodeInputArgs = <<"-hwaccel", "auto">>
  /\ mem.heap[1] = <<"-hwaccel", "auto", "">>
  /\ mem.heap[2] = <<"-ac", "6", "">>
  /\ mem.s.arr > 2
  /\ Has(args, "-hwaccel") /\ HasPair(args, "-ac", "6")

\* C22: the command of makeStreamArgs ends with the format's arguments, the
\* configured extra output arguments and then the output "pipe:", which is
\* its last argument and occurs once; the path of the file is named once, as
\* the input.
C22_OutputIsPipeLast ==
  call.fn = "makeStreamArgs" =>
    LET n == Len(args)
        extra == sm.LiveTranscodeOutputArgs
        format == CASE options.StreamType = MimeMp4Video -> FormatMP4
                    [] options.StreamType = MimeWebmVideo -> FormatWebm
                    [] options.StreamType = MimeMkvVideo -> FormatMatroska
    IN  /\ args[n] = "pipe:"
        /\ Count(args, "pipe:") = 1
        /\ SubSeq(args, n - Len(extra) - 2, n)
             = <<"-f", format>> \o extra \o <<"pipe:">>
        /\ Count(args, options.Path) = 1
        /\ HasPair(args, "-i", options.Path)

\* C22 witness: a command with extra output arguments, which end just before
\* the output
C22_Witness ==
  /\ call.fn = "makeStreamArgs"
  /\ sm.LiveTranscodeOutputArgs = <<"-ac", "6">>
  /\ options.StreamType = MimeWebmVideo
  /\ SubSeq(args, Len(args) - 4, Len(args))
       = <<"-f", FormatWebm, "-ac", "6", "pipe:">>

\* the cap in force for the request: its own resolution when it gives one,
\* the configured maximum otherwise
CapInForce ==
  IF options.Resolution # ""
    THEN GetMaxResolution(options.Resolution)
    ELSE GetMaxResolution(sm.MaxStreamingTranscodeSize)

\* C25: for a source whose width and height are both within the cap in force,
\* the filter computed is empty, for every codec: that of hwMaxResFilter, and
\* that of makeStreamArgs, whose command then has no filter argument of its
\* own.
C25_FittingSourceNoFilter ==
  /\ call.fn = "hwMaxResFilter"
       /\ call.width <= call.max /\ call.height <= call.max
       => filter.vf = ""
  /\ call.fn = "makeStreamArgs"
       /\ options.Width <= CapInForce /\ options.Height <= CapInForce
       => /\ filter.vf = ""
          /\ Count(args, "-vf")
               = Count(sm.LiveTranscodeInputArgs \o sm.LiveTranscodeOutputArgs,
                       "-vf")

\* C25 witness: a source above the configured maximum and within the
\* resolution the request asks for, with a hardware codec selected
C25_Witness ==
  /\ call.fn = "makeStreamArgs"
  /\ options.Width = 640 /\ options.Height = 480
  /\ sm.MaxStreamingTranscodeSize = "STANDARD"
  /\ options.Resolution = "STANDARD_HD"
  /\ options.StreamType = MimeMp4Video
  /\ HasPair(args, "-c:v", VideoCodecN264)
  /\ filter.vf = ""
  /\ ~Has(args, "-vf")

\* the filter f scales a width x height source under the cap max: to even
\* dimensions within the cap, in the proportion of the source up to the two
\* pixels the rounding of the short edge may take
ScalesEvenInProportion(f, width, height, max) ==
  LET long == IF width >= height THEN width ELSE height
      d == f.width * height - f.height * width
  IN  /\ f.vf \in {"scale=" \o ToString(f.width) \o ":" \o ToString(f.height),
                   "scale_hw=" \o ToString(f.width) \o ":" \o ToString(f.height)}
      /\ f.width % 2 = 0 /\ f.height % 2 = 0
      /\ f.width <= max /\ f.height <= max
      /\ d < 2 * long /\ 0 - d < 2 * long

\* C26: for a source whose width or height exceeds the cap, the scale filter
\* has an even output width and an even output height, and these keep the
\* aspect ratio of the source within the rounding: for hwMaxResFilter, and
\* for the filter makeStreamArgs computes and puts into an MP4 or WebM
\* command.
C26_ScaledEvenKeepsAspect ==
  /\ call.fn = "hwMaxResFilter"
       /\ (call.width > call.max \/ call.height > call.max)
       => ScalesEvenInProportion(filter, call.width, call.height, call.max)
  /\ call.fn = "makeStreamArgs"
       /\ (options.Width > CapInForce \/ options.Height > CapInForce)
       => /\ ScalesEvenInProportion(filter, options.Width, options.Height,
                                    CapInForce)
          /\ options.StreamType # MimeMkvVideo => HasPair(args, "-vf", filter.vf)

\* C26 witness: an 853 x 481 source under a cap of 240 is scaled to 240 x 134,
\* the short edge brought down from 135
C26_Witness ==
  /\ call.fn = "makeStreamArgs"
  /\ options.Width = 853 /\ options.Height = 481
  /\ options.Resolution = "LOW"
  /\ filter = [vf |-> "scale=240:134", width |-> 240, height |-> 134]
  /\ HasPair(args, "-vf", "scale=240:134")

\* C23 as claimed: once bytes are written to the response and the copy goes
\* on, the response has been flushed.
C23_FlushedAfterEachWrite ==
  \A r \in Reqs :
    pc[r] \in {"CopyRead", "CopyWrite"} /\ sent[r].body # <<>>
      => sent[r].flushes > 0

\* C23, amended: while streaming, each chunk read from the encoder is written
\* to the response before the next one is read, so that whenever the copy is
\* about to read, every byte produced is in the response or still in the
\* pipe; the response is flushed once, after the copy has ended, and never
\* during the copy.
C23_WrittenAsReadFlushedAtEnd ==
  \A r \in Reqs :
    /\ pc[r] = "CopyRead" => sent[r].body \o outPipe[r] = Produced(r)
    /\ pc[r] \in {"CopyRead", "CopyWrite", "CopyDone"} => sent[r].flushes = 0
    /\ sent[r].flushes =
         IF pc[r] = "returned" /\ StatusCodes(r) = <<StatusOK>> THEN 1 ELSE 0

\* C23 witness: bytes are in the response while the encoder still runs, and
\* nothing was flushed
C23_Witness ==
  /\ pc[Stream] = "CopyRead"
  /\ proc[Stream] = "running"
  /\ Len(sent[Stream].body) = MaxOut - 1
  /\ sent[Stream].flushes = 0

\* a step of the stream of request r itself: of its handler or of its encoder
OwnStep(r) ==
  \/ ReadLock(r) \/ Command(r) \/ Start(r) \/ AttachCommand(r) \/ ServeError(r)
  \/ HandlerHeaders(r) \/ CopyRead(r) \/ CopyDone(r)
  \/ EncoderExit(r) \/ KillByContext(r)

\* C24: paths are independent.  A request waiting for the read lock of a path
\* that no writer holds can take it whatever readers and writers hold or wait
\* for another path; a stream under way can always take a step of its own or
\* of its encoder, unless it waits for a writer on its own path; and a step
\* that revokes the lock of a live request is one of a writer waiting for that
\* request's own path.
C24_PathsAreIndependent ==
  /\ [](\A r \in Reqs :
          /\ pc[r] = "ReadLock" /\ reqCtx[r] = "live"
               /\ writer[path[r]] # "active"
               => ENABLED ReadLock(r)
          /\ pc[r] \notin {"idle", "returned"}
               /\ ~(pc[r] = "ReadLock" /\ reqCtx[r] = "live"
                      /\ writer[path[r]] = "active")
               => ENABLED OwnStep(r))
  /\ [][\A r \in Reqs :
          lockCtx[r] = "live" /\ lockCtx'[r] = "done" /\ reqCtx'[r] = "live"
            => writer[path[r]] = "waiting"]_vars

\* C24 witness: a writer holds one path and a request waits for it, while a
\* request for the other path is about to take its read lock
C24_Witness ==
  \E r, q \in Reqs :
    /\ path[r] # path[q]
    /\ writer[path[q]] = "active"
    /\ pc[q] = "ReadLock" /\ reqCtx[q] = "live"
    /\ pc[r] = "ReadLock" /\ reqCtx[r] = "live"

\* the errors of a pipe that could not be obtained, and of a failed start step
PipeErrors == {"stdout pipe", "stderr pipe"}
StartStepErrors == {"start", "context canceled"}

\* C30: the encoder is started only by the start step, which is reached with
\* both pipes obtained and no error; after a pipe failure there is never a
\* process; what getTranscodeStream returns as an error is a pipe failure or
\* the failure of the start step, each with no process behind it, and once a
\* process exists no error is returned any more: nothing that happens to the
\* running encoder or to the copy becomes the error response.
C30_StartAfterPipesOnlyStartErrorsReturned ==
  /\ [](\A r \in Reqs :
          /\ err[r] \in PipeErrors => proc[r] = "none" /\ nOut[r] = 0
          /\ pc[r] = "error" =>
               /\ err[r] \in StartErrors
               /\ proc[r] = "none"
          /\ proc[r] # "none" =>
               /\ pc[r] \notin {"ReadLock", "Command", "Start", "error"}
               /\ err[r] \notin StartErrors
               /\ sent[r].text = <<>>
               /\ StatusBadRequest \notin {StatusCodes(r)[i] :
                                             i \in 1..Len(StatusCodes(r))})
  /\ [][\A r \in Reqs :
          /\ proc[r] = "none" /\ proc'[r] # "none"
               => pc[r] = "Start" /\ err[r] = "" /\ proc'[r] = "running"
          /\ pc[r] # "error" /\ pc'[r] = "error"
               => /\ pc[r] \in {"Command", "Start"}
                  /\ pc[r] = "Command" <=> err'[r] \in PipeErrors
                  /\ pc[r] = "Start" <=> err'[r] \in StartStepErrors]_vars

\* C30 witness: the start step itself failed after both pipes were obtained,
\* and its error is the body of the 400 response
C30_Witness ==
  /\ pc[Stream] = "returned"
  /\ err[Stream] = "start"
  /\ proc[Stream] = "none"
  /\ logs[Stream] = {"error transcoding video file"}
  /\ sent[Stream].text = <<"start">>

\* C27 as claimed: a service started with a duration, and not stopped since,
\* is not running once the instant the duration named is past.
C27_StartWithDurationStops ==
  dlna.running /\ stopBy # <<>> => now <= stopBy[1]

\* the timers that will make the next transition of the service: pending stop
\* timers while it runs, pending start timers while it does not
Scheduled ==
  {t \in 1..Len(dlna.timers) :
     /\ dlna.timers[t].state = "pending"
     /\ dlna.timers[t].kind = IF dlna.running THEN "stop" ELSE "start"}

\* C28 as claimed: whenever no timer function waits to run, Status().Until is
\* set exactly when a timer is pending for the next transition of the service
\* (the start while it is not running, the stop while it is), and is the
\* instant that timer is due.
C28_UntilIsThePendingTransition ==
  (\A t \in 1..Len(dlna.timers) : dlna.timers[t].state # "fired") =>
    /\ Status(dlna).Until # <<>> <=> Scheduled # {}
    /\ Status(dlna).Until # <<>> =>
         \E t \in Scheduled : dlna.timers[t].due = Status(dlna).Until[1]

\* C29: lock(ctx) waits exactly while its context is live and the lock is
\* taken; it returns nil only with the caller holding the lock, and the
\* context's error only for a cancelled context and without the lock; at most
\* one caller holds the lock, and the callers that hold it are those between
\* a successful lock and their unlock or inside Open or Close; Open and Close
\* give the lock back on every return; unlock with the lock not held does not
\* wait: it panics.
C29_WriteLockOneHolder ==
  /\ [](/\ database.lockChan = Cardinality(holders)
        /\ Cardinality(holders) <= 1
        /\ \A c \in Callers :
             /\ c \in holders <=> dbpc[c] \in {"locked", "Open", "Close"}
             /\ dbpc[c] = "lock" =>
                  (ENABLED lock(c) <=> dbctx[c] = "done" \/ holders = {})
             /\ dbpc[c] = "idle" /\ holders = {} => ENABLED unlock(c))
  /\ [][\A c \in Callers :
          /\ dbpc[c] = "lock" /\ dbpc'[c] # "lock" =>
               \/ /\ dbres'[c] = "nil"
                  /\ holders = {} /\ holders' = {c}
               \/ /\ dbres'[c] = "ctx error"
                  /\ dbctx[c] = "done"
                  /\ c \notin holders' /\ holders' = holders
          /\ dbpc[c] \in {"Open", "Close"} /\ dbpc'[c] # dbpc[c] =>
               dbpc'[c] = "idle" /\ holders' = {}
          /\ dbpc[c] = "idle" /\ dbpc'[c] = "idle" /\ dbres'[c] # dbres[c] =>
               /\ holders = {} /\ holders' = {}
               /\ dbres'[c] = "panic"]_vars

\* C29 witness: a caller was refused with the error of its cancelled context
\* while another caller is inside Open with the lock
C29_Witness ==
  \E c, d \in Callers :
    /\ dbres[c] = "ctx error"
    /\ c \notin holders
    /\ dbpc[d] = "Open"
    /\ holders = {d}

\* the drain goroutine has logged its error
DrainLogged(r) == "ffmpeg error when running command" \in logs[r]

\* C31: the drain goroutine logs nothing before cmd.Wait() has returned for the
\* ended process; after it, its error is logged exactly when the stderr text is
\* not empty, or it is empty and Wait returned an error that is no exit error;
\* an exit error (a non-zero exit) with empty stderr is not logged; the step
\* that logs writes nothing to the response, and the response of a started
\* encoder carries no error text and no status but 200.
C31_DrainLogsStderrOrWaitFailure ==
  /\ [](/\ DrainLogged(Stream) => dpc[Stream] = "done"
        /\ dpc[Stream] = "done" =>
             /\ proc[Stream] \in {"exit0", "exit1", "killed"}
             /\ errStr[Stream] = nErr[Stream]
             /\ waitErr[Stream] \in WaitResults(proc[Stream])
             /\ DrainLogged(Stream) <=>
                  \/ errStr[Stream] > 0
                  \/ /\ errStr[Stream] = 0
                     /\ waitErr[Stream] \notin {"", "ExitError"}
             /\ errStr[Stream] = 0 /\ waitErr[Stream] = "ExitError"
                  => ~DrainLogged(Stream)
             /\ sent[Stream].text = <<>>
             /\ \A i \in 1..Len(sent[Stream].status) :
                  StatusCodes(Stream)[i] = StatusOK)
  /\ [][(\/ dpc[Stream] = "Wait" /\ dpc[Stream]' = "done"
         \/ DrainLogged(Stream)' # DrainLogged(Stream))
          => /\ sent[Stream]' = sent[Stream]
             /\ header[Stream]' = header[Stream]
             /\ err[Stream]' = err[Stream]
             /\ pc[Stream]' = pc[Stream]]_vars

\* C31 witness: the encoder exited with status 0 and empty stderr, Wait itself
\* failed, the failure was logged, and the response is the 200 stream
C31_Witness ==
  /\ dpc[Stream] = "done"
  /\ proc[Stream] = "exit0"
  /\ errStr[Stream] = 0
  /\ waitErr[Stream] = "wait failed"
  /\ DrainLogged(Stream)
  /\ pc[Stream] = "returned"
  /\ StatusCodes(Stream) = <<StatusOK>>
  /\ sent[Stream].text = <<>>

\* C37: a getTranscodeStream that returned an error has attached no command
\* to the lock context, started no drain goroutine and waited on nothing, and
\* there is no process; the step that returns the error leaves the lock
\* context, the lock table and every goroutine and process as they were, and
\* so does every step of the call before the error.
C37_ErrorReturnLeavesNothingBehind ==
  /\ [](\A r \in Reqs :
          err[r] \in StartErrors =>
            /\ attached[r] = 0
            /\ dpc[r] = "none"
            /\ waited[r] = 0 /\ waitErr[r] = "none"
            /\ proc[r] = "none"
            /\ errStr[r] = 0)
  /\ [][\A r \in Reqs :
          (pc[r] \in {"Command", "Start"} /\ pc'[r] \in {"Start", "error"}
             /\ pc'[r] # pc[r]) =>
            /\ lockCtx' = lockCtx
            /\ attached' = attached
            /\ readLocks' = readLocks /\ released' = released
            /\ dpc' = dpc /\ errStr' = errStr
            /\ waited' = waited /\ waitErr' = waitErr
            /\ proc' = proc]_vars

\* C37 witness: the stderr pipe could not be obtained; the call has returned
\* its error with the read lock still held on a live lock context, nothing
\* attached, no goroutine and no process
C37_Witness ==
  /\ pc[Stream] = "error"
  /\ err[Stream] = "stderr pipe"
  /\ lockCtx[Stream] = "live"
  /\ Stream \in readLocks[path[Stream]]
  /\ attached[Stream] = 0
  /\ dpc[Stream] = "none"
  /\ proc[Stream] = "none"

\* the parts of the argument list of the request, in the order of the command
\* line, written out from the request, the configuration and the filter
StreamArgsParts ==
  LET c == FileGetCodec(sm, options.StreamType)
  IN  << <<"-hide_banner">>,
         <<"-v", LogLevelError>>,
         IF c \in HardwareCodecs THEN <<"-init_hw_device", c>> ELSE <<>>,
         sm.LiveTranscodeInputArgs,
         IF options.StartTime # 0
           THEN <<"-ss", ToString(options.StartTime)>> ELSE <<>>,
         <<"-i", options.Path>>,
         StreamTypeArgs(options.StreamType, c, filter.vf,
                        options.AudioCodec = MissingUnsupported),
         sm.LiveTranscodeOutputArgs,
         <<"pipe:">> >>

\* C32: the argument list makeStreamArgs returns is, in this order,
\* "-hide_banner", the log level error, the device arguments of the codec
\* selected, the extra input arguments, the seek (there exactly when StartTime
\* is not 0), the input path, the format's arguments for the codec, the filter
\* and videoOnly, the extra output arguments and the output "pipe:"; the filter
\* is the one computed for the cap of the request's Resolution when it gives
\* one and of the configured maximum otherwise.
C32_ArgsInFixedOrderCapFromRequest ==
  call.fn = "makeStreamArgs" =>
    LET p == StreamArgsParts
        label == IF options.Resolution # ""
                   THEN options.Resolution ELSE sm.MaxStreamingTranscodeSize
    IN  /\ args = p[1] \o p[2] \o p[3] \o p[4] \o p[5] \o p[6] \o p[7] \o p[8] \o p[9]
        /\ Has(args, "-ss") <=> options.StartTime # 0
        /\ filter = hwMaxResFilter(FileGetCodec(sm, options.StreamType),
                                   options.Width, options.Height,
                                   GetMaxResolution(label))

\* C32 witness: a request with a start time and a resolution of its own below
\* the configured maximum, for a hardware codec, with extra arguments on both
\* sides: every part of the list is there and the filter scales to the
\* request's cap
C32_Witness ==
  /\ call.fn = "makeStreamArgs"
  /\ options.StartTime = 30
  /\ options.Resolution = "LOW" /\ sm.MaxStreamingTranscodeSize = "FULL_HD"
  /\ options.Width = 1920 /\ options.Height = 1080
  /\ FileGetCodec(sm, options.StreamType) = VideoCodecN264
  /\ sm.LiveTranscodeInputArgs # <<>> /\ sm.LiveTranscodeOutputArgs # <<>>
  /\ filter.width = 240
  /\ \A i \in 1..9 : StreamArgsParts[i] # <<>>
  /\ SubSeq(args, 1, 9)
       = <<"-hide_banner", "-v", LogLevelError, "-init_hw_device",
           VideoCodecN264, "-hwaccel", "auto", "-ss", "30">>

\* C35: whatever Start and Stop calls and timer functions have run, a running
\* service has no start timer and no start time, a service that is not running
\* has no stop timer and no stop time, the start time and the stop time are
\* never both set, and Status().Until is the stop time of a running service
\* and the start time of one that is not.
C35_StartAndStopTimesExclusive ==
  /\ dlna.running => dlna.startTimer = 0 /\ dlna.startTime = <<>>
  /\ ~dlna.running => dlna.stopTimer = 0 /\ dlna.stopTime = <<>>
  /\ ~(dlna.startTime # <<>> /\ dlna.stopTime # <<>>)
  /\ dlna.startTime # <<>> => dlna.startTimer # 0
  /\ dlna.stopTime # <<>> => dlna.stopTimer # 0
  /\ Status(dlna).Until
       = IF dlna.running THEN dlna.stopTime ELSE dlna.startTime

\* C35 witness: a Start with a duration took over from a pending start timer
\* of an earlier Stop: the start timer was stopped and cleared, and the stop
\* time alone is set
C35_Witness ==
  /\ dlna.running
  /\ dlna.stopTimer # 0
  /\ dlna.stopTime # <<>>
  /\ Status(dlna).Until = dlna.stopTime
  /\ \E t \in 1..Len(dlna.timers) :
       dlna.timers[t].kind = "start" /\ dlna.timers[t].state = "stopped"

\* the stream managers that were constructed and not shut down
LiveStreamManagers ==
  {i \in 1..Len(mgr.streamManagers) : ~mgr.streamManagers[i].shutdown}

\* the read locks a stream manager sees: those of its lock manager
VisibleLocks(i) == mgr.lockManagers[mgr.streamManagers[i].lockManager]

\* C33: after any RefreshStreamManager and Shutdown calls at most one stream
\* manager is not shut down, and it is the one the Manager holds; a
\* RefreshStreamManager constructs its stream manager only with every earlier
\* one shut down; every stream manager was given the Manager's one
\* ReadLockManager, so all of them see the same read locks, and a refresh
\* leaves the locks that were taken as they are.
C33_OneLiveStreamManagerSharedLocks ==
  /\ [](/\ Cardinality(LiveStreamManagers) <= 1
        /\ LiveStreamManagers =
             IF mgr.StreamManager = 0 THEN {} ELSE {mgr.StreamManager}
        /\ mgr.pc = "exited" => LiveStreamManagers = {}
        /\ \A i \in 1..Len(mgr.streamManagers) :
             /\ mgr.streamManagers[i].lockManager = mgr.ReadLockManager
             /\ VisibleLocks(i) = mgr.lockManagers[mgr.ReadLockManager])
  /\ [][Len(mgr.streamManagers)' > Len(mgr.streamManagers) =>
          /\ LiveStreamManagers = {}
          /\ mgr.lockManagers' = mgr.lockManagers
          /\ mgr.ReadLockManager' = mgr.ReadLockManager]_vars

\* C33 witness: a second stream manager was constructed while a read lock
\* taken through the first, now shut down, is held: the second sees it
C33_Witness ==
  /\ Len(mgr.streamManagers) = 2
  /\ mgr.streamManagers[1].shutdown
  /\ mgr.StreamManager = 2
  /\ VisibleLocks(2) # {}

\* RunMigrations is under way inside Migrate
Migrating == mig.pc \in {"getMigrate", "pre", "Steps", "post", "reopen"}

\* the errors Migrate returns
MigrateErrors ==
  {"error backing up database", "error performing migration, restored",
   "unable to restore database from backup"}

\* C34: Migrate runs its migrations only with the backup made, which holds
\* the database as it was; a Migrate whose backup failed has run nothing; when
\* RunMigrations failed, a restore from that backup is attempted and an error
\* is returned whether or not it succeeded; nil is returned only for
\* migrations that succeeded; and the backup is removed only after migrations
\* that succeeded, when the caller gave no backup path.
C34_BackupFirstRestoreOnFailure ==
  /\ [](/\ Migrating =>
             /\ mig.backup # <<>>
             /\ mig.pc # "getMigrate" => mig.backup[1] = mig.databaseSchemaVersion
        /\ mig.log # <<>> => mig.res # "error backing up database"
        /\ mig.res = "error backing up database" =>
             mig.backup = <<>> /\ mig.restore = "none" /\ ~mig.removed
        /\ mig.res = "nil" =>
             /\ mig.restore = "none"
             /\ \A k \in 1..Len(mig.log) : mig.log[k][3] = "ok"
        /\ mig.restore # "none" => mig.res \in MigrateErrors \ {"error backing up database"}
        /\ mig.removed => mig.res = "nil" /\ mig.BackupPath = "")
  /\ [][/\ mig.pc = "failed" /\ mig.pc' # "failed" =>
             /\ mig.restore' \in {"ok", "failed"}
             /\ mig.res' \in MigrateErrors
             /\ mig.restore' = "ok" => mig.file' = mig.backup[1]
        /\ mig.log' # mig.log /\ mig.log' # <<>> => mig.backup # <<>>
        /\ mig.res' = "nil" /\ mig.res # "nil" =>
             mig.pc = "migrated" /\ mig.file = appSchemaVersion
        /\ mig.removed' /\ ~mig.removed =>
             mig.pc = "migrated" /\ mig.BackupPath = ""]_vars

\* C34 witness: a migration step failed after an earlier one had succeeded,
\* and the database was restored from the backup made at the path the caller
\* gave: it holds the version it had before, and an error was returned
C34_Witness ==
  /\ mig.pc = "idle"
  /\ mig.BackupPath = "backup.sqlite"
  /\ mig.restore = "ok"
  /\ mig.res = "error performing migration, restored"
  /\ Len(mig.log) > 3
  /\ mig.log[2] = <<"step", mig.databaseSchemaVersion + 1, "ok">>
  /\ mig.file = mig.databaseSchemaVersion

\* the part of a migration that comes k-th in a run
MigrationPart(k) ==
  CASE k % 3 = 1 -> "pre" [] k % 3 = 2 -> "step" [] k % 3 = 0 -> "post"

\* C36 as claimed: RunMigrations runs nothing for a database at or above the
\* application's schema version; below it, what it runs is pre-migrations,
\* schema step and post-migrations for each version in ascending order from
\* the database's version up, nothing after a part that failed, and all of
\* the appSchemaVersion - databaseSchemaVersion versions when none failed.
C36_StepsAreAppMinusDatabaseVersion ==
  mig.pc \in {"pre", "Steps", "post", "reopen", "migrated"} =>
    IF mig.databaseSchemaVersion >= appSchemaVersion
      THEN mig.log = <<>>
      ELSE /\ \A k \in 1..Len(mig.log) :
                mig.log[k] = <<MigrationPart(k),
                               mig.databaseSchemaVersion + ((k - 1) \div 3) + 1,
                               "ok">>
           /\ Len(mig.log) <= 3 * (appSchemaVersion - mig.databaseSchemaVersion)
           /\ mig.pc \in {"reopen", "migrated"} =>
                Len(mig.log) = 3 * (appSchemaVersion - mig.databaseSchemaVersion)

====
